---- MODULE Spec2Model ----
(***************************************************************************)
(* A model of the elastic-tools reporting scripts:                         *)
(*   src/elastic_ilm_report.py       parse_size, format_size,              *)
(*                                   estimate_daily_ingestion,             *)
(*                                   generate_ilm_report                   *)
(*   src/calculate_index_usage.py    the cost pipeline (main)              *)
(*   src/index_nodes_ilm_reporting.py  the per-row join                    *)
(*                                                                         *)
(* Conventions.                                                            *)
(*  - A Python str whose characters the code inspects (sizes, prices,      *)
(*    index names, role names) is a sequence of one-character strings.     *)
(*    A str that is only compared for equality is a TLA+ string.           *)
(*  - A byte count is a natural number in base 1024, least significant     *)
(*    digit first, without leading zero digits (<<>> is 0), so that        *)
(*    1024^4 and sums of sizes stay exact.                                 *)
(*  - Python floats are modelled by exact rational arithmetic.             *)
(***************************************************************************)
EXTENDS Integers, Sequences, FiniteSets, TLC

VARIABLES
    prog,        \* which script runs: "size", "ilm", "cost", "join"
    pc,          \* the position of that script
    size_str,    \* parse_size: the argument
    size_n,      \* format_size: the argument (a byte count)
    formatted,   \* format_size: the string returned
    parsed,      \* parse_size: the outcome
    \* the snapshot files, each a sequence of entries in file order
    indices_file,        \* indices.json: shard placement rows
    nodes_file,          \* nodes.json: node id -> attributes
    indices_stats_file,  \* indices_stats.json: index -> sizes
    ilm_explain_file,    \* commercial/ilm_explain.json: index -> ILM state
    nodes_stats_file,    \* nodes_stats.json: node id -> statistics
    pricing_file,        \* elastic_pricing.csv: price rows
    bad_files,           \* the files that are absent or do not parse
    \* calculate_index_usage.main and index_nodes_ilm_reporting.main
    indices_df,          \* process_elasticsearch_index_data's table
    pricing_df,          \* process_elastic_pricing's table
    nodes_stat_df,       \* process_elasticsearch_nodes_data's table
    nodes_pricing,       \* calculate_pricing's table
    index_costs,         \* calculate_index_costs's table
    combined_data,       \* process_elasticsearch_data's table
    output,              \* what the run has printed and written, in order
    \* elastic_ilm_report.main
    cat_indices_file,    \* cat/cat_indices.txt: the lines after the header
    ilm_policies_file,   \* commercial/ilm_policies.json: policy -> phases
    report               \* what generate_ilm_report gave

(***************************************************************************)
(* Characters and strings                                                  *)
(***************************************************************************)
UpperChars == <<"A","B","C","D","E","F","G","H","I","J","K","L","M",
                "N","O","P","Q","R","S","T","U","V","W","X","Y","Z">>

LowerChars == <<"a","b","c","d","e","f","g","h","i","j","k","l","m",
                "n","o","p","q","r","s","t","u","v","w","x","y","z">>

DigitChars == <<"0","1","2","3","4","5","6","7","8","9">>

\* str.lower() on one character
LowerChar(c) ==
    IF \E i \in 1..Len(UpperChars) : UpperChars[i] = c
    THEN LowerChars[CHOOSE i \in 1..Len(UpperChars) : UpperChars[i] = c]
    ELSE c

\* str.lower()
Lower(s) == [i \in 1..Len(s) |-> LowerChar(s[i])]

IsDigit(c) == \E i \in 1..Len(DigitChars) : DigitChars[i] = c

DigitVal(c) == (CHOOSE i \in 1..Len(DigitChars) : DigitChars[i] = c) - 1

\* s[-k:]
LastChars(s, k) == IF Len(s) <= k THEN s ELSE SubSeq(s, Len(s) - k + 1, Len(s))

\* s[:-k]
DropLast(s, k) == IF Len(s) <= k THEN <<>> ELSE SubSeq(s, 1, Len(s) - k)

\* str.startswith(p)
StartsWith(s, p) == Len(s) >= Len(p) /\ SubSeq(s, 1, Len(p)) = p

\* p in s  (substring)
Contains(s, p) ==
    \E i \in 0..(Len(s) - Len(p)) : SubSeq(s, i + 1, i + Len(p)) = p

RECURSIVE LStrip(_)
LStrip(s) == IF s # <<>> /\ s[1] = " " THEN LStrip(Tail(s)) ELSE s

RECURSIVE RStrip(_)
RStrip(s) == IF s # <<>> /\ s[Len(s)] = " " THEN RStrip(DropLast(s, 1)) ELSE s

\* str.strip() for the blank
Strip(s) == RStrip(LStrip(s))

(***************************************************************************)
(* Natural numbers in base 1024                                            *)
(***************************************************************************)
Base == 1024

RECURSIVE BigNorm(_)
BigNorm(b) == IF b # <<>> /\ b[Len(b)] = 0 THEN BigNorm(DropLast(b, 1)) ELSE b

RECURSIVE BigFromInt(_)
BigFromInt(n) == IF n = 0 THEN <<>> ELSE <<n % Base>> \o BigFromInt(n \div Base)

RECURSIVE BigToInt(_)
BigToInt(b) == IF b = <<>> THEN 0 ELSE b[1] + Base * BigToInt(Tail(b))

\* b * 1024^e
BigShift(b, e) == IF b = <<>> THEN <<>> ELSE [i \in 1..e |-> 0] \o b

\* 1024^e
Pow1024(e) == BigShift(<<1>>, e)

RECURSIVE BigMulCarry(_, _, _)
BigMulCarry(b, m, carry) ==
    IF b = <<>> THEN BigFromInt(carry)
    ELSE LET t == b[1] * m + carry
         IN  <<t % Base>> \o BigMulCarry(Tail(b), m, t \div Base)

\* b * m for a small m
BigMulSmall(b, m) == BigNorm(BigMulCarry(b, m, 0))

RECURSIVE BigDivRem(_, _)
BigDivRem(b, d) ==
    IF b = <<>> THEN [q |-> <<>>, r |-> 0]
    ELSE LET hi == BigDivRem(Tail(b), d)
             t  == hi.r * Base + b[1]
         IN  [q |-> <<t \div d>> \o hi.q, r |-> t % d]

\* floor(b / d) for a small d
BigDivSmall(b, d) == BigNorm(BigDivRem(b, d).q)

RECURSIVE BigAddCarry(_, _, _)
BigAddCarry(a, b, carry) ==
    IF a = <<>> /\ b = <<>> THEN BigFromInt(carry)
    ELSE LET x == IF a = <<>> THEN 0 ELSE a[1]
             y == IF b = <<>> THEN 0 ELSE b[1]
             t == x + y + carry
         IN  <<t % Base>> \o
             BigAddCarry(IF a = <<>> THEN a ELSE Tail(a),
                         IF b = <<>> THEN b ELSE Tail(b), t \div Base)

BigAdd(a, b) == BigNorm(BigAddCarry(a, b, 0))

RECURSIVE BigLessFrom(_, _, _)
BigLessFrom(a, b, i) ==
    IF i = 0 THEN FALSE
    ELSE IF a[i] # b[i] THEN a[i] < b[i]
    ELSE BigLessFrom(a, b, i - 1)

\* a < b
BigLess(a, b) ==
    IF Len(a) # Len(b) THEN Len(a) < Len(b) ELSE BigLessFrom(a, b, Len(a))

BigLeq(a, b) == ~BigLess(b, a)

RECURSIVE BigSubBorrow(_, _, _)
BigSubBorrow(a, b, borrow) ==
    IF a = <<>> THEN <<>>
    ELSE LET y == (IF b = <<>> THEN 0 ELSE b[1]) + borrow
             d == IF a[1] >= y THEN a[1] - y ELSE a[1] + Base - y
         IN  <<d>> \o BigSubBorrow(Tail(a), IF b = <<>> THEN b ELSE Tail(b),
                                   IF a[1] >= y THEN 0 ELSE 1)

\* a - b for a >= b
BigSub(a, b) == BigNorm(BigSubBorrow(a, b, 0))

\* |a - b|
BigAbsDiff(a, b) == IF BigLess(a, b) THEN BigSub(b, a) ELSE BigSub(a, b)

RECURSIVE Pow10(_)
Pow10(k) == IF k = 0 THEN 1 ELSE 10 * Pow10(k - 1)

(***************************************************************************)
(* Python's float(str) on the characters the inputs use: blanks around,    *)
(* a sign, then "inf", "infinity", "nan" in any case, or decimal digits    *)
(* with at most one point.  Exponents and digit grouping are not among     *)
(* the input characters.  The value of kind "num" is mant / 10^dec.        *)
(***************************************************************************)
RECURSIVE DigitsVal(_)
DigitsVal(s) ==
    IF s = <<>> THEN 0 ELSE 10 * DigitsVal(DropLast(s, 1)) + DigitVal(s[Len(s)])

IsDecimal(s) ==
    /\ \A i \in 1..Len(s) : IsDigit(s[i]) \/ s[i] = "."
    /\ Cardinality({i \in 1..Len(s) : s[i] = "."}) <= 1
    /\ \E i \in 1..Len(s) : IsDigit(s[i])

FloatErr == [kind |-> "err", neg |-> FALSE, mant |-> 0, dec |-> 0]

PyFloatUnsigned(s, neg) ==
    IF Lower(s) \in {<<"i","n","f">>, <<"i","n","f","i","n","i","t","y">>}
    THEN [kind |-> "inf", neg |-> neg, mant |-> 0, dec |-> 0]
    ELSE IF Lower(s) = <<"n","a","n">>
    THEN [kind |-> "nan", neg |-> neg, mant |-> 0, dec |-> 0]
    ELSE IF IsDecimal(s)
    THEN LET digits == SelectSeq(s, IsDigit)
             point  == {i \in 1..Len(s) : s[i] = "."}
             dec    == IF point = {} THEN 0
                       ELSE Len(s) - (CHOOSE i \in point : TRUE)
         IN  [kind |-> "num", neg |-> neg, mant |-> DigitsVal(digits), dec |-> dec]
    ELSE FloatErr

PyFloat(str) ==
    LET s == Strip(str)
    IN  IF s # <<>> /\ s[1] \in {"+", "-"}
        THEN PyFloatUnsigned(Tail(s), s[1] = "-")
        ELSE PyFloatUnsigned(s, FALSE)

(***************************************************************************)
(* parse_size                                                              *)
(***************************************************************************)
\* the units table, each value as the power of 1024 it is
units == [u \in {<<"b">>, <<"k","b">>, <<"m","b">>, <<"g","b">>, <<"t","b">>} |->
            CASE u = <<"b">>     -> Pow1024(0)
              [] u = <<"k","b">> -> Pow1024(1)
              [] u = <<"m","b">> -> Pow1024(2)
              [] u = <<"g","b">> -> Pow1024(3)
              [] u = <<"t","b">> -> Pow1024(4)]

OneLetterUnits == {<<"b">>, <<"k">>, <<"m">>, <<"g">>, <<"t">>}

\* an outcome of parse_size: a returned integer (sign and magnitude), or the
\* exception that leaves the function
Returned(neg, mag) == [exc |-> "none", neg |-> neg /\ mag # <<>>, val |-> mag]

Raised(e) == [exc |-> e, neg |-> FALSE, val |-> <<>>]

RECURSIVE BigMul(_, _)
\* a * b
BigMul(a, b) ==
    IF b = <<>> THEN <<>>
    ELSE BigAdd(BigMulSmall(a, b[1]), BigShift(BigMul(a, Tail(b)), 1))

\* int(number * units[unit]); the except clause holds ValueError and KeyError
IntOfProduct(number, unit) ==
    IF unit \notin DOMAIN units THEN Returned(FALSE, <<>>)          \* KeyError
    ELSE CASE number.kind = "err" -> Returned(FALSE, <<>>)          \* ValueError
           [] number.kind = "nan" -> Returned(FALSE, <<>>)          \* ValueError
           [] number.kind = "inf" -> Raised("OverflowError")
           [] number.kind = "num" ->
                Returned(number.neg,
                         BigDivSmall(BigMul(BigFromInt(number.mant), units[unit]),
                                     Pow10(number.dec)))

parse_size(s) ==
    IF Lower(LastChars(s, 2)) \in DOMAIN units
    THEN LET number == PyFloat(DropLast(s, 2))
             unit   == Lower(LastChars(s, 2))
         IN  IF number.kind = "err" THEN Returned(FALSE, <<>>)
             ELSE IntOfProduct(number, unit)
    ELSE IF Lower(LastChars(s, 1)) \in OneLetterUnits
    THEN LET number == PyFloat(DropLast(s, 1))
             unit   == Lower(LastChars(s, 1)) \o <<"b">>
         IN  IF number.kind = "err" THEN Returned(FALSE, <<>>)
             ELSE IntOfProduct(number, unit)
    ELSE Returned(FALSE, <<>>)                                      \* ValueError

(***************************************************************************)
(* format_size.  The argument is the number num / den (den = 1 for an      *)
(* integer byte count; the averages of estimate_daily_ingestion are        *)
(* quotients).  After k divisions by 1024.0 the loop holds                 *)
(* num / (den * 1024^k).                                                   *)
(***************************************************************************)
SizeUnits == << <<"B">>, <<"K","B">>, <<"M","B">>, <<"G","B">>, <<"T","B">> >>

RECURSIVE IntToStr(_)
IntToStr(n) ==
    IF n < 10 THEN <<DigitChars[n + 1]>>
    ELSE IntToStr(n \div 10) \o <<DigitChars[(n % 10) + 1]>>

\* f"{x:.2f}" for x = h / 100
TwoDecimalStr(h) ==
    IntToStr(h \div 100) \o <<".">> \o
    <<DigitChars[((h % 100) \div 10) + 1], DigitChars[(h % 10) + 1]>>

\* the hundredths nearest to num / (den * 1024^k), a tie going to the even one
Hundredths(num, den, k) ==
    LET m    == BigMulSmall(num, 100)
        low  == BigNorm(SubSeq(m, 1, IF Len(m) < k THEN Len(m) ELSE k))
        high == IF Len(m) <= k THEN <<>> ELSE SubSeq(m, k + 1, Len(m))
        qr   == BigDivRem(high, den)
        q    == BigToInt(BigNorm(qr.q))
        rest == BigAdd(BigShift(BigFromInt(qr.r), k), low)
        twice == BigMulSmall(rest, 2)
        whole == BigShift(BigFromInt(den), k)
    IN  IF BigLess(whole, twice) THEN q + 1
        ELSE IF twice = whole THEN (IF q % 2 = 1 THEN q + 1 ELSE q)
        ELSE q

RECURSIVE FormatLoop(_, _, _)
FormatLoop(num, den, k) ==
    IF k = Len(SizeUnits)
    THEN TwoDecimalStr(Hundredths(num, den, k)) \o <<" ", "P", "B">>
    ELSE IF BigLess(num, BigShift(BigFromInt(den), k + 1))          \* size < 1024.0
    THEN TwoDecimalStr(Hundredths(num, den, k)) \o <<" ">> \o SizeUnits[k + 1]
    ELSE FormatLoop(num, den, k + 1)

format_size(num, den) == FormatLoop(num, den, 0)

\* the number of divisions by 1024.0 format_size makes for the integer n
UnitIndex(n) == IF Len(n) = 0 THEN 0 ELSE IF Len(n) > 6 THEN 5 ELSE Len(n) - 1

(***************************************************************************)
(* Values of a table cell: a number (a base-1024 natural, the column       *)
(* giving its unit), a str, or NaN/None (also: a key absent from a JSON    *)
(* object).                                                                *)
(***************************************************************************)
Num(b) == [t |-> "num", n |-> b, s |-> ""]

Str(x) == [t |-> "str", n |-> <<>>, s |-> x]

NaN == [t |-> "nan", n |-> <<>>, s |-> ""]

\* isinstance(x, (int, float)): a NaN is a float
IsNumber(v) == v.t \in {"num", "nan"}

\* dict.get(key, default)
GetOr(v, default) == IF v = NaN THEN default ELSE v

RECURSIVE Flatten(_)
Flatten(ss) == IF ss = <<>> THEN <<>> ELSE Head(ss) \o Flatten(Tail(ss))

\* str.startswith('.')
IsSystemIndex(name) == StartsWith(name, <<".">>)

(***************************************************************************)
(* process_elasticsearch_index_data: the merge-based join                  *)
(***************************************************************************)
\* lines 102-108: the shard rows without system indices, with data_type
ShardFrame(shards) ==
    LET keep == SelectSeq(shards, LAMBDA r : ~IsSystemIndex(r.index))
    IN  [i \in 1..Len(keep) |->
            keep[i] @@ [data_type |-> IF keep[i].prirep = "p" THEN "primary"
                                      ELSE "replica"]]

\* lines 115-126
NodesFrame(nodes) ==
    [i \in 1..Len(nodes) |->
        [id |-> nodes[i].id,
         node_type |-> GetOr(nodes[i].data, Str("unknown")),
         instance_configuration |->
             GetOr(nodes[i].instance_configuration, Str("unknown"))]]

\* lines 136-144
PrimarySizes(stats) ==
    LET keep == SelectSeq(stats, LAMBDA e : ~IsSystemIndex(e.index))
    IN  [i \in 1..Len(keep) |->
            [index |-> keep[i].index, shard |-> NaN, data_type |-> "primary",
             size |-> GetOr(keep[i].primaries_size, Str("unknown"))]]

\* lines 146-157: one entry per shard copy whose routing.primary is False
ReplicaSizesOfShard(index, sh) ==
    LET reps == SelectSeq(sh.copies, LAMBDA c : c.primary = FALSE)
    IN  [i \in 1..Len(reps) |->
            [index |-> index, shard |-> Str(sh.shard), data_type |-> "replica",
             size |-> GetOr(reps[i].size, Str("unknown"))]]

ReplicaSizesOfIndex(e) ==
    Flatten([k \in 1..Len(e.shards) |-> ReplicaSizesOfShard(e.index, e.shards[k])])

ReplicaSizes(stats) ==
    LET keep == SelectSeq(stats, LAMBDA e : ~IsSystemIndex(e.index))
    IN  Flatten([i \in 1..Len(keep) |-> ReplicaSizesOfIndex(keep[i])])

\* lines 171-174: size / 1.5, held as the number of thirds of a byte (2 * size)
RawDataSize(row) ==
    IF row.data_type = "primary" /\ IsNumber(row.size)
    THEN (IF row.size.t = "num" THEN Num(BigMulSmall(row.size.n, 2)) ELSE NaN)
    ELSE Str("NA replica")

\* lines 160-178; size_gb is rounded at lines 242-245 and is held in
\* hundredths of a GiB; raw_data_size_gb keeps raw_data_size's numerator
SizesFrame(stats) ==
    LET all == PrimarySizes(stats) \o ReplicaSizes(stats)
    IN  [i \in 1..Len(all) |->
            all[i] @@
            [size_gb |-> IF all[i].size.t = "num"
                         THEN Num(BigFromInt(Hundredths(all[i].size.n, 1, 3)))
                         ELSE all[i].size,
             raw_data_size |-> RawDataSize(all[i]),
             raw_data_size_gb |-> RawDataSize(all[i])]]

\* lines 184-195
IlmFrame(ilm) ==
    LET keep == SelectSeq(ilm, LAMBDA e : ~IsSystemIndex(e.index))
    IN  [i \in 1..Len(keep) |->
            [index |-> keep[i].index,
             ilm_policy |-> GetOr(keep[i].pe_policy, Str("unknown")),
             age |-> GetOr(keep[i].age, Str("unknown")),
             ilm_phase |-> GetOr(keep[i].phase, Str("unknown"))]]

\* DataFrame.merge(how='left'): every left row, in order, with each right row
\* that Matches it, in the right table's order, or once with NaN in the right
\* table's columns
LeftMerge(left, right, Matches(_, _), Joined(_, _), Unmatched(_)) ==
    Flatten([i \in 1..Len(left) |->
        LET found == SelectSeq(right, LAMBDA r : Matches(left[i], r))
        IN  IF found = <<>> THEN <<Unmatched(left[i])>>
            ELSE [j \in 1..Len(found) |-> Joined(left[i], found[j])]])

\* lines 200-205
MergeNodes(frame, nodes_df) ==
    LeftMerge(frame, nodes_df,
              LAMBDA l, r : l.id = r.id,
              LAMBDA l, r : l @@ [node_type |-> r.node_type,
                                  instance_configuration |-> r.instance_configuration],
              LAMBDA l : l @@ [node_type |-> NaN, instance_configuration |-> NaN])

\* lines 209-214: on index and data_type; both tables hold a shard column,
\* which the merge keeps apart as shard_x and shard_y
MergeSizes(frame, sizes_df) ==
    LeftMerge(frame, sizes_df,
              LAMBDA l, r : l.index = r.index /\ l.data_type = r.data_type,
              LAMBDA l, r : l @@ [shard_y |-> r.shard, size |-> r.size,
                                  size_gb |-> r.size_gb,
                                  raw_data_size |-> r.raw_data_size,
                                  raw_data_size_gb |-> r.raw_data_size_gb],
              LAMBDA l : l @@ [shard_y |-> NaN, size |-> NaN, size_gb |-> NaN,
                               raw_data_size |-> NaN, raw_data_size_gb |-> NaN])

\* lines 217-221
MergeIlm(frame, ilm_df) ==
    LeftMerge(frame, ilm_df,
              LAMBDA l, r : l.index = r.index,
              LAMBDA l, r : l @@ [ilm_policy |-> r.ilm_policy, age |-> r.age,
                                  ilm_phase |-> r.ilm_phase],
              LAMBDA l : l @@ [ilm_policy |-> NaN, age |-> NaN, ilm_phase |-> NaN])

\* lines 224-239
FinalColumns(r) ==
    [id |-> r.id, index |-> r.index, data_type |-> r.data_type, node |-> r.node,
     node_type |-> r.node_type, instance_configuration |-> r.instance_configuration,
     size |-> r.size, size_gb |-> r.size_gb, raw_data_size |-> r.raw_data_size,
     raw_data_size_gb |-> r.raw_data_size_gb, docs_count |-> r.docs,
     ilm_policy |-> r.ilm_policy, age |-> r.age, ilm_phase |-> r.ilm_phase]

\* the table of lines 200-252
JoinedFrame(shards, nodes, stats, ilm) ==
    LET merged == MergeIlm(MergeSizes(MergeNodes(ShardFrame(shards),
                                                 NodesFrame(nodes)),
                                      SizesFrame(stats)),
                           IlmFrame(ilm))
    IN  [i \in 1..Len(merged) |-> FinalColumns(merged[i])]

InputFiles == {"indices_stats", "indices", "nodes", "ilm_explain"}

\* what makes the try block of lines 97-252 raise: a file that is absent or
\* does not parse, or a table built from an empty list, which has no columns
\* to select or merge on ('index', 'id', 'size', 'index')
IndexDataRaises(bad, shards, nodes, stats, ilm) ==
    \/ bad \cap InputFiles # {}
    \/ shards = <<>>
    \/ nodes = <<>>
    \/ PrimarySizes(stats) \o ReplicaSizes(stats) = <<>>
    \/ IlmFrame(ilm) = <<>>

\* lines 95-256: the table, or sys.exit(1)
process_elasticsearch_index_data(bad, shards, nodes, stats, ilm) ==
    IF IndexDataRaises(bad, shards, nodes, stats, ilm)
    THEN [exit |-> TRUE, df |-> <<>>]
    ELSE [exit |-> FALSE, df |-> JoinedFrame(shards, nodes, stats, ilm)]

(***************************************************************************)
(* process_elasticsearch_data: the per-row join of                         *)
(* index_nodes_ilm_reporting.py                                            *)
(***************************************************************************)
\* dict.get(key, {}) on a file's entries: the entry of that key, or <<>>
Lookup(entries, Key(_), k) == SelectSeq(entries, LAMBDA e : Key(e) = k)

\* lines 71-84
LoopSize(shard, stats) ==
    LET found == Lookup(stats, LAMBDA e : e.index, shard.index)
    IN  IF found = <<>> THEN Str("unknown")
        ELSE IF shard.prirep = "p"
        THEN GetOr(found[1].primaries_size, Str("unknown"))
        ELSE LET lists == Lookup(found[1].shards, LAMBDA h : h.shard, shard.shard)
                 reps  == IF lists = <<>> THEN <<>>
                          ELSE SelectSeq(lists[1].copies, LAMBDA c : c.primary = FALSE)
             IN  IF reps = <<>> THEN Str("unknown")
                 ELSE GetOr(reps[1].size, Str("unknown"))

\* lines 56-109: the row of one shard entry
LoopRow(shard, nodes, stats, ilm) ==
    LET node == Lookup(nodes, LAMBDA e : e.id, shard.id)
        info == Lookup(ilm, LAMBDA e : e.index, shard.index)
    IN  [index |-> shard.index,
         data |-> IF shard.prirep = "p" THEN "primary" ELSE "replica",
         node |-> shard.node,
         node_type |-> IF node = <<>> THEN Str("unknown")
                       ELSE GetOr(node[1].data, Str("unknown")),
         instance_configuration |->
             IF node = <<>> THEN Str("unknown")
             ELSE GetOr(node[1].instance_configuration, Str("unknown")),
         size |-> LoopSize(shard, stats),
         docs_count |-> shard.docs,
         ilm_policy |-> IF info = <<>> THEN Str("unknown")
                        ELSE GetOr(info[1].pe_policy, Str("unknown")),
         age |-> IF info = <<>> THEN Str("unknown")
                 ELSE GetOr(info[1].age, Str("unknown")),
         ilm_phase |-> IF info = <<>> THEN Str("unknown")
                       ELSE GetOr(info[1].phase, Str("unknown"))]

\* lines 20-122: the table, or sys.exit(1)
process_elasticsearch_data(bad, shards, nodes, stats, ilm) ==
    IF bad \cap InputFiles # {}
    THEN [exit |-> TRUE, df |-> <<>>]
    ELSE LET keep == SelectSeq(shards, LAMBDA r : ~IsSystemIndex(r.index))
         IN  [exit |-> FALSE,
              df |-> [i \in 1..Len(keep) |-> LoopRow(keep[i], nodes, stats, ilm)]]

(***************************************************************************)
(* process_elastic_pricing, process_elasticsearch_nodes_data               *)
(***************************************************************************)
\* the rows of the CSV whether or not the file can be read
process_elastic_pricing_NoExit(bad, rows) == [exit |-> FALSE, df |-> rows]

\* lines 12-45: the rows of the CSV, or sys.exit(1)
process_elastic_pricing(bad, rows) ==
    IF "pricing" \in bad THEN [exit |-> TRUE, df |-> <<>>]
    ELSE [exit |-> FALSE, df |-> rows]

\* lines 9-10, 60-62: bytes_to_gb(None) raises TypeError
NodeStatRaises(e) == e.mem = NaN \/ e.fs_total = NaN \/ e.store = NaN

\* round(x, 2) of a difference of byte counts a - b in GiB, in hundredths
RoundedDiff(a, b) ==
    [neg |-> BigLess(a, b) /\ Hundredths(BigAbsDiff(a, b), 1, 3) # 0,
     n   |-> BigFromInt(Hundredths(BigAbsDiff(a, b), 1, 3))]

\* lines 58-80.  'memory (GB)' holds the byte count: the number of GiB is
\* that count over 1024^3.  The rounded columns are in hundredths of a GiB.
NodeStatRow(e) ==
    [id |-> e.id,
     node |-> GetOr(e.name, Str("No host information")),
     roles |-> e.roles,
     region_code |-> e.region,
     node_type |-> GetOr(e.data, Str("No node type available")),
     product |-> GetOr(e.instance_configuration, Str("No instance configuration")),
     memory |-> e.mem,
     disk_space |-> Num(BigFromInt(Hundredths(e.fs_total.n, 1, 3))),
     data_store_size |-> Num(BigFromInt(Hundredths(e.store.n, 1, 3))),
     free_space |-> RoundedDiff(e.fs_total.n, e.store.n)]

\* lines 47-92: the table, or sys.exit(1)
process_elasticsearch_nodes_data(bad, entries) ==
    IF "nodes_stats" \in bad \/ \E i \in 1..Len(entries) : NodeStatRaises(entries[i])
    THEN [exit |-> TRUE, df |-> <<>>]
    ELSE [exit |-> FALSE, df |-> [i \in 1..Len(entries) |-> NodeStatRow(entries[i])]]

(***************************************************************************)
(* calculate_pricing.  A price is held in ten-thousandths of a dollar; a   *)
(* cost is GiB times price, held as bytes times ten-thousandths (that is   *)
(* in units of 1 / (10^4 * 1024^3) dollar).                                *)
(***************************************************************************)
Tiers == {"standard", "gold", "platinum", "enterprise"}

PriceDecimals == 4

HoursPerYear == 8760

MinMemoryGB == 2

\* a cell of a price column: the text read from the CSV, or NaN
PriceText(chars) == [t |-> "str", c |-> chars]

PriceNaN == [t |-> "nan", c |-> <<>>]

\* .str.replace('$', '')
StripDollar(chars) == SelectSeq(chars, LAMBDA ch : ch # "$")

\* read_csv infers float64 for a column whose every cell reads as a number
\* (or is empty); the .str accessor of line 266 then raises AttributeError
ColumnIsNumeric(pricing, tier) ==
    /\ pricing # <<>>
    /\ \A i \in 1..Len(pricing) :
          \/ pricing[i][tier].t = "nan"
          \/ PyFloat(pricing[i][tier].c).kind # "err"

\* line 266 on one cell: the price, NaN, inf, or "err" for the ValueError of
\* astype(float).  Digits beyond the PriceDecimals-th are outside the inputs.
PriceNumeric(cell) ==
    IF cell.t = "nan" THEN NaN
    ELSE LET f == PyFloat(StripDollar(cell.c))
         IN  CASE f.kind = "num" ->
                    IF f.dec <= PriceDecimals
                    THEN Num(BigFromInt(f.mant * Pow10(PriceDecimals - f.dec)))
                    ELSE Num(BigFromInt(f.mant \div Pow10(f.dec - PriceDecimals)))
               [] f.kind = "nan" -> NaN
               [] f.kind = "inf" -> Str("inf")
               [] f.kind = "err" -> Str("err")

NoPrices == [tier \in Tiers |-> PriceNaN]

\* an inner merge: a node without a price row is dropped
MergePricing_Inner(nodes, pricing) ==
    Flatten([i \in 1..Len(nodes) |->
        LET found == SelectSeq(pricing,
                        LAMBDA r : /\ nodes[i].region_code = r.region_code
                                   /\ nodes[i].product = r.product)
        IN  [j \in 1..Len(found) |->
                nodes[i] @@ [price |-> [tier \in Tiers |-> found[j][tier]]]]])

\* line 262: nodes left-merged with the price rows on region_code and product
MergePricing(nodes, pricing) ==
    LeftMerge(nodes, pricing,
              LAMBDA l, r : l.region_code = r.region_code /\ l.product = r.product,
              LAMBDA l, r : l @@ [price |-> [tier \in Tiers |-> r[tier]]],
              LAMBDA l : l @@ [price |-> NoPrices])

\* lines 270-273 without the memory test
ShouldCalculate_AnyMemory(row) ==
    \E i \in 1..Len(row.roles.list) :
        Contains(Lower(row.roles.list[i]), <<"d","a","t","a">>)

\* lines 270-273
ShouldCalculate(row) ==
    /\ \E i \in 1..Len(row.roles.list) :
           Contains(Lower(row.roles.list[i]), <<"d","a","t","a">>)
    /\ BigLeq(BigShift(<<MinMemoryGB>>, 3), row.memory.n)

\* lines 276-293 for one tier: the hourly cost
HourlyCost(row, tier) ==
    IF ~ShouldCalculate(row) THEN Num(<<>>)
    ELSE LET price == PriceNumeric(row.price[tier])
         IN  IF price.t = "num" THEN Num(BigMul(row.memory.n, price.n)) ELSE price

\* lines 290-293 with the hours of a leap year
YearlyCost_LeapYear(row, tier) ==
    LET hr == HourlyCost(row, tier)
    IN  IF hr.t = "num" THEN Num(BigMulSmall(hr.n, 8784)) ELSE hr

\* lines 290-293
YearlyCost(row, tier) ==
    LET hr == HourlyCost(row, tier)
    IN  IF hr.t = "num" THEN Num(BigMulSmall(hr.n, HoursPerYear)) ELSE hr

\* what makes calculate_pricing raise: no node row (a table without columns),
\* a numeric price column, a price that is no number, roles that are None
PricingRaises(nodes, pricing) ==
    \/ nodes = <<>>
    \/ \E tier \in Tiers : ColumnIsNumeric(pricing, tier)
    \/ \E i \in 1..Len(MergePricing(nodes, pricing)) : \E tier \in Tiers :
           PriceNumeric(MergePricing(nodes, pricing)[i].price[tier]) = Str("err")
    \/ \E i \in 1..Len(nodes) : ~nodes[i].roles.present

\* lines 259-298: the table, or the exception
calculate_pricing(nodes, pricing) ==
    IF PricingRaises(nodes, pricing) THEN [raised |-> TRUE, df |-> <<>>]
    ELSE LET merged == MergePricing(nodes, pricing)
         IN  [raised |-> FALSE,
              df |-> [i \in 1..Len(merged) |->
                        merged[i] @@
                        [hr |-> [tier \in Tiers |-> HourlyCost(merged[i], tier)],
                         yr |-> [tier \in Tiers |-> YearlyCost(merged[i], tier)]]]]

(***************************************************************************)
(* calculate_index_costs                                                   *)
(***************************************************************************)
\* the characters of the inputs in code point order
CodeOrder == <<" ", "$", "+", "-", ".">> \o DigitChars \o UpperChars
                 \o <<"_">> \o LowerChars

CharCode(c) == CHOOSE i \in 1..Len(CodeOrder) : CodeOrder[i] = c

RECURSIVE StrLess(_, _)
\* a < b for two str
StrLess(a, b) ==
    IF b = <<>> THEN FALSE
    ELSE IF a = <<>> THEN TRUE
    ELSE IF a[1] # b[1] THEN CharCode(a[1]) < CharCode(b[1])
    ELSE StrLess(Tail(a), Tail(b))

RECURSIVE SortedKeys(_)
\* the group keys in the order groupby gives them (sort=True)
SortedKeys(keys) ==
    IF keys = {} THEN <<>>
    ELSE LET least == CHOOSE k \in keys : \A o \in keys \ {k} : StrLess(k, o)
         IN  <<least>> \o SortedKeys(keys \ {least})

\* lines 301-304: on id and node (the node name)
MergeNodePricing(frame, pricing) ==
    LeftMerge(frame, pricing,
              LAMBDA l, r : l.id = r.id /\ Str(l.node) = r.node,
              LAMBDA l, r : l @@ [product |-> r.product, yr |-> r.yr],
              LAMBDA l : l @@ [product |-> NaN, yr |-> [tier \in Tiers |-> NaN]])

RECURSIVE SumSkipNaN(_)
\* Series.sum(): the NaN skipped, 0 for no number at all; inf stays inf
SumSkipNaN(vals) ==
    IF vals = <<>> THEN Num(<<>>)
    ELSE LET rest == SumSkipNaN(Tail(vals))
         IN  CASE Head(vals).t = "nan" -> rest
               [] Head(vals).t = "str" -> Head(vals)
               [] Head(vals).t = "num" ->
                    IF rest.t = "num" THEN Num(BigAdd(Head(vals).n, rest.n)) ELSE rest

\* the value of the first row of the group, null or not
FirstNotNaN_FirstRow(vals) == IF vals = <<>> THEN NaN ELSE vals[1]

\* groupby(...).first(): the first value that is not NaN/None, else NaN
FirstNotNaN(vals) ==
    LET real == SelectSeq(vals, LAMBDA v : v # NaN)
    IN  IF real = <<>> THEN NaN ELSE real[1]

\* lines 310-313 telling the types by the number of shard rows
ShardType_ByCount(types) ==
    IF Len(types) > 1 THEN "primary+replica" ELSE "primary-only"

\* lines 310-313
ShardType(types) ==
    IF {types[i] : i \in 1..Len(types)} = {"primary", "replica"}
    THEN "primary+replica" ELSE "primary-only"

\* lines 316-346 for one group
IndexCostRow(index, group) ==
    LET Col(F(_)) == [i \in 1..Len(group) |-> F(group[i])]
        size == SumSkipNaN(Col(LAMBDA r : r.size))
    IN  [index |-> index,
         instance_configuration |-> FirstNotNaN(Col(LAMBDA r : r.instance_configuration)),
         shard_type |-> ShardType(Col(LAMBDA r : r.data_type)),
         total_index_size |-> size,
         total_index_size_mb |-> size,      \* the same count over 1024 * 1024
         yr |-> [tier \in Tiers |-> SumSkipNaN(Col(LAMBDA r : r.yr[tier]))]]

\* a str among the sizes: summing it with numbers, or dividing the sum by
\* 1024 * 1024 at line 330, raises TypeError
IndexCostsRaises(frame, pricing) ==
    \E i \in 1..Len(frame) : frame[i].size.t = "str"

\* lines 300-348: the report, or the exception
calculate_index_costs(frame, pricing) ==
    IF IndexCostsRaises(frame, pricing) THEN [raised |-> TRUE, df |-> <<>>]
    ELSE LET merged == MergeNodePricing(frame, pricing)
             keys   == SortedKeys({merged[i].index : i \in 1..Len(merged)})
         IN  [raised |-> FALSE,
              df |-> [k \in 1..Len(keys) |->
                        IndexCostRow(keys[k],
                                     SelectSeq(merged, LAMBDA r : r.index = keys[k]))]]

(***************************************************************************)
(* elastic_ilm_report: get_indices, estimate_daily_ingestion,              *)
(* generate_ilm_report.  A line of cat_indices.txt is held by the fields   *)
(* the code reads: [index, doc_count, store_size].                         *)
(***************************************************************************)
RecentDays == 30

\* a Python int: sign and magnitude
Zero == [neg |-> FALSE, val |-> <<>>]

SignedAdd(a, b) ==
    IF a.neg = b.neg THEN [neg |-> a.neg /\ BigAdd(a.val, b.val) # <<>>,
                           val |-> BigAdd(a.val, b.val)]
    ELSE IF a.val = b.val THEN Zero
    ELSE IF BigLess(a.val, b.val) THEN [neg |-> b.neg, val |-> BigSub(b.val, a.val)]
    ELSE [neg |-> a.neg, val |-> BigSub(a.val, b.val)]

RECURSIVE SignedSum(_)
SignedSum(xs) == IF xs = <<>> THEN Zero ELSE SignedAdd(Head(xs), SignedSum(Tail(xs)))

\* format_size of num / den for any sign: a negative size is below 1024.0
FormatSigned(x, den) ==
    IF x.neg THEN <<"-">> \o TwoDecimalStr(Hundredths(x.val, den, 0)) \o <<" ", "B">>
    ELSE format_size(x.val, den)

\* the positions of a sequence of keys where a key is met for the first time
FirstMet(keys) == {i \in 1..Len(keys) : \A j \in 1..(i - 1) : keys[j] # keys[i]}

\* the keys of a dict filled in the order of keys: each key once, as first met
DictKeys(keys) ==
    LET first == SelectSeq([i \in 1..Len(keys) |-> i], LAMBDA i : i \in FirstMet(keys))
    IN  [n \in 1..Len(first) |-> keys[first[n]]]

\* lines 22-37.  indices[index_name] = {...}: the name keeps the place of its
\* first line and the values of its last
get_indices(lines) ==
    LET names == DictKeys([i \in 1..Len(lines) |-> lines[i].index])
    IN  [n \in 1..Len(names) |->
            lines[CHOOSE i \in 1..Len(lines) :
                     /\ lines[i].index = names[n]
                     /\ \A j \in (i + 1)..Len(lines) : lines[j].index # names[n]]]

\* \d{4}\.\d{2}\.\d{2} matches at position i
IsDateAt(name, i) ==
    /\ i + 9 <= Len(name)
    /\ \A k \in {0, 1, 2, 3, 5, 6, 8, 9} : IsDigit(name[i + k])
    /\ name[i + 4] = "." /\ name[i + 7] = "."

\* date_pattern.search(index).group(), <<>> without a match
DateToken(name) ==
    LET starts == {i \in 1..Len(name) : IsDateAt(name, i)}
    IN  IF starts = {} THEN <<>>
        ELSE LET i == CHOOSE i \in starts : \A j \in starts : i <= j
             IN  SubSeq(name, i, i + 9)

\* one bucket for every dated index, not for every date
Buckets_PerIndex(indices) ==
    LET dated == SelectSeq(indices, LAMBDA e : DateToken(e.index) # <<>>)
    IN  [n \in 1..Len(dated) |->
            [date |-> DateToken(dated[n].index),
             bytes |-> SignedSum(<<dated[n].size_bytes>>)]]

\* lines 61-66: daily_ingestion, in the order the dates are first met; the
\* indices carry size_bytes, what parse_size gives for their store_size
Buckets(indices) ==
    LET dated == SelectSeq(indices, LAMBDA e : DateToken(e.index) # <<>>)
        dates == DictKeys([i \in 1..Len(dated) |-> DateToken(dated[i].index)])
    IN  [n \in 1..Len(dates) |->
            [date |-> dates[n],
             bytes |-> SignedSum(
                 LET of == SelectSeq(dated, LAMBDA e : DateToken(e.index) = dates[n])
                 IN  [i \in 1..Len(of) |-> of[i].size_bytes])]]

RECURSIVE SortedForward(_)
\* sorted(keys): the earliest date first
SortedForward(keys) ==
    IF keys = {} THEN <<>>
    ELSE LET least == CHOOSE k \in keys : \A o \in keys \ {k} : StrLess(k, o)
         IN  <<least>> \o SortedForward(keys \ {least})

RECURSIVE SortedReverse(_)
\* sorted(keys, reverse=True)
SortedReverse(keys) ==
    IF keys = {} THEN <<>>
    ELSE LET most == CHOOSE k \in keys : \A o \in keys \ {k} : StrLess(o, k)
         IN  <<most>> \o SortedReverse(keys \ {most})

Take(s, n) == SubSeq(s, 1, IF Len(s) < n THEN Len(s) ELSE n)

\* a numeric estimate over no day
NoEstimate_ZeroDays ==
    [estimated |-> TRUE, daily_ingestion |-> <<>>, total_ingestion |-> Zero,
     num_days |-> 0, sorted_dates |-> <<>>, recent_30_days_ingestion |-> Zero,
     avg_daily_ingestion |-> <<"0", ".", "0", "0", " ", "B">>,
     avg_recent_30_days |-> <<"0", ".", "0", "0", " ", "B">>,
     total |-> <<"0", ".", "0", "0", " ", "B">>]

\* line 69: "Unable to estimate daily ingestion rate. No date-based indices found."
NoEstimate ==
    [estimated |-> FALSE, daily_ingestion |-> <<>>, total_ingestion |-> Zero,
     num_days |-> 0, sorted_dates |-> <<>>, recent_30_days_ingestion |-> Zero,
     avg_daily_ingestion |-> <<>>, avg_recent_30_days |-> <<>>, total |-> <<>>]

\* lines 57-84; the averages are kept as the text format_size gives them
estimate_daily_ingestion(indices) ==
    LET daily_ingestion == Buckets(indices)
        total_ingestion == SignedSum([i \in 1..Len(daily_ingestion) |->
                                        daily_ingestion[i].bytes])
        num_days == Len(daily_ingestion)
        sorted_dates == Take(SortedReverse({daily_ingestion[i].date :
                                              i \in 1..Len(daily_ingestion)}),
                             RecentDays)
        recent == SelectSeq(daily_ingestion,
                     LAMBDA b : \E i \in 1..Len(sorted_dates) : sorted_dates[i] = b.date)
        recent_30_days_ingestion == SignedSum([i \in 1..Len(recent) |-> recent[i].bytes])
        \* lines 80-84: what is formatted, as numerator and denominator
        shown == [avg_daily_ingestion |-> <<total_ingestion, num_days>>,
                  avg_recent_30_days |-> <<recent_30_days_ingestion, Len(sorted_dates)>>,
                  total |-> <<total_ingestion, 1>>]
        text == [f \in DOMAIN shown |-> FormatSigned(shown[f][1], shown[f][2])]
    IN  IF daily_ingestion = <<>> THEN NoEstimate
        ELSE [estimated |-> TRUE, daily_ingestion |-> daily_ingestion,
              total_ingestion |-> total_ingestion, num_days |-> num_days,
              sorted_dates |-> sorted_dates,
              recent_30_days_ingestion |-> recent_30_days_ingestion] @@ text

RECURSIVE IntSum(_)
IntSum(xs) == IF xs = <<>> THEN 0 ELSE Head(xs) + IntSum(Tail(xs))

\* lines 98-102: a managed index with a policy name
UsesPolicy(info) == info.managed /\ info.policy.t = "str" /\ info.policy.s # ""

\* the keys of policy_usage in the order they are first met
PolicyNames(explain) ==
    LET using == SelectSeq(explain, UsesPolicy)
    IN  DictKeys([i \in 1..Len(using) |-> using[i].policy.s])

\* lines 117-133: one policy of policy_usage
PolicyTally(policy, explain, indices) ==
    LET using == SelectSeq(explain, LAMBDA info : UsesPolicy(info) /\ info.policy.s = policy)
        indices_list == [i \in 1..Len(using) |-> using[i].index]
        known == SelectSeq(indices,
                    LAMBDA e : \E i \in 1..Len(indices_list) : indices_list[i] = e.index)
        policy_total_size == SignedSum([i \in 1..Len(known) |-> known[i].size_bytes])
    IN  [policy |-> policy, indices_list |-> indices_list,
         count |-> Len(indices_list),
         policy_total_size |-> policy_total_size,
         policy_total_docs |-> IntSum([i \in 1..Len(known) |-> known[i].doc_count]),
         size |-> FormatSigned(policy_total_size, 1)]

IlmFiles == {"ilm_policies", "ilm_explain", "cat_indices"}

NoReport ==
    [kind |-> "none", text |-> "", policy_usage |-> <<>>, total_usage |-> Zero,
     ingestion |-> NoEstimate, policies |-> <<>>]

\* the store sizes of the indices, parsed
Sized(indices) ==
    [i \in 1..Len(indices) |->
        [index |-> indices[i].index, doc_count |-> indices[i].doc_count,
         store_size |-> indices[i].store_size,
         size_bytes |-> parse_size(indices[i].store_size)]]

\* lines 86-154: the report, an error text that is returned, or an exception.
\* bad holds the files that cannot be loaded, "ilm_explain.indices" when the
\* explain data is no mapping with an 'indices' key, and "ilm_policies.dict"
\* when the policy definitions are no mapping.
generate_ilm_report(bad, policies, explain, lines) ==
    LET indices == Sized(get_indices(lines))
        outcome ==
            IF bad \cap IlmFiles # {}
            THEN <<"raised", "FileNotFoundError">>
            ELSE IF "ilm_explain.indices" \in bad
            THEN <<"error", "Error: Unable to process ILM explain data">>
            ELSE IF \E i \in 1..Len(indices) : indices[i].size_bytes.exc # "none"
            THEN <<"raised", "OverflowError">>
            ELSE IF "ilm_policies.dict" \in bad
            THEN <<"error", "Error: Unable to process policy data">>
            ELSE <<"report", "ILM Policy and Index Usage Report">>
    IN  IF outcome[1] # "report"
        THEN [NoReport EXCEPT !.kind = outcome[1], !.text = outcome[2]]
        ELSE [kind |-> "report", text |-> outcome[2],
              policy_usage |->
                  LET names == PolicyNames(explain)
                  IN  [i \in 1..Len(names) |-> PolicyTally(names[i], explain, indices)],
              total_usage |-> SignedSum([i \in 1..Len(indices) |->
                                           indices[i].size_bytes]),
              ingestion |-> estimate_daily_ingestion(indices),
              policies |-> policies]

(***************************************************************************)
(* Inputs of the size functions                                            *)
(***************************************************************************)
MaxWhole == 12
MaxShift == 4

Fractions == {<<>>, <<".","5">>, <<".","2","5">>, <<".","0","0">>}

\* numeric prefixes: 0 .. MaxWhole, with and without a fraction, and 1023
NumericPrefixes ==
    {IntToStr(w) \o f : w \in (0..MaxWhole) \cup {1023}, f \in Fractions}
        \cup {<<".","5">>, <<" ","1","2">>, <<"1","2"," ">>, <<"-","1">>, <<"+","2">>}

OtherPrefixes ==
    {<<>>, <<"x">>, <<"1","x">>, <<"1",".","2",".","3">>, <<"-">>,
     <<"i","n","f">>, <<"I","n","f">>, <<"-","i","n","f">>, <<"n","a","n">>}

TwoLetterSuffixes ==
    {<<a, b>> : a \in {"k","K","m","M","g","G","t","T"}, b \in {"b","B"}}

OneLetterSuffixes == {<<a>> : a \in {"b","B","k","K","m","M","g","G","t","T"}}

OtherSuffixes == {<<>>, <<"p","b">>, <<"x","y">>, <<"1">>}

SizeStrings ==
    {x \o u : x \in NumericPrefixes \cup OtherPrefixes,
              u \in TwoLetterSuffixes \cup OneLetterSuffixes \cup OtherSuffixes}

SampleDigits == {0, 1, 5, 128, 512, 1023}

\* byte counts lo + hi * 1024, times 1024^k
ByteCounts ==
    {BigShift(BigNorm(<<lo, hi>>), k) :
        lo \in SampleDigits, hi \in SampleDigits, k \in 0..MaxShift}

NoOutcome == [exc |-> "unset", neg |-> FALSE, val |-> <<>>]

(***************************************************************************)
(* Inputs of the cost pipeline and of the per-row join: a cluster with     *)
(* index "a" of 1..MaxShards shards with 0..MaxReplicas replicas each, an  *)
(* optional index "b", an optional system index ".s", on nodes n1 and n2;  *)
(* the four feeds describe that cluster, less what a feed lacks.           *)
(***************************************************************************)
MaxShards == 2
MaxReplicas == 2
MaxDupRows == 2

IdxA == <<"a">>
IdxB == <<"b">>
IdxSys == <<".", "s">>

ShardIds == <<"0", "1", "2", "3">>
NodeIds == <<"n1", "n2">>
NodeNames == [id \in {"n1", "n2"} |-> IF id = "n1" THEN "host1" ELSE "host2"]

\* the store size of each copy of shard k (k = 0, 1, ...)
ShardSizes == << <<0, 0, 0, 1>>, <<0, 512>>, <<7>>, <<0, 3>> >>

\* the node of copy j (0: the primary) of shard k
CopyNode(k, j, offset) == NodeIds[((k + j + offset) % 2) + 1]

ShardRow(index, k, j, offset) ==
    [index |-> index, shard |-> ShardIds[k + 1],
     prirep |-> IF j = 0 THEN "p" ELSE "r",
     id |-> CopyNode(k, j, offset), node |-> NodeNames[CopyNode(k, j, offset)],
     docs |-> "10"]

\* _cat/shards lists an index by shard, the primary first
IndexRows(index, shards, replicas, offset) ==
    Flatten([k \in 1..shards |->
                [j \in 1..(replicas + 1) |-> ShardRow(index, k - 1, j - 1, offset)]])

RECURSIVE BigSum(_)
BigSum(bs) == IF bs = <<>> THEN <<>> ELSE BigAdd(Head(bs), BigSum(Tail(bs)))

\* the indices_stats entry of an index; the copies of a shard in either order
StatsEntry(index, shards, replicas, primaryFirst) ==
    [index |-> index,
     primaries_size |-> Num(BigSum([k \in 1..shards |-> ShardSizes[k]])),
     shards |-> [k \in 1..shards |->
        [shard |-> ShardIds[k],
         copies |-> [j \in 1..(replicas + 1) |->
            [primary |-> IF primaryFirst THEN j = 1 ELSE j = replicas + 1,
             size |-> Num(ShardSizes[k])]]]]]

IlmEntry(index, managed, policy) ==
    [index |-> index, managed |-> managed,
     policy |-> IF managed THEN Str(policy) ELSE NaN,
     pe_policy |-> IF managed THEN Str(policy) ELSE NaN,
     age |-> IF managed THEN Str("3d") ELSE NaN,
     phase |-> IF managed THEN Str("hot") ELSE NaN]

Reverse(s) == [i \in 1..Len(s) |-> s[Len(s) + 1 - i]]

\* node n2 in nodes.json: absent, without attributes, or with them
Node2Entries ==
    {<<>>,
     <<[id |-> "n2", data |-> NaN, instance_configuration |-> NaN]>>,
     <<[id |-> "n2", data |-> Str("warm"), instance_configuration |-> Str("p2")]>>}

\* the four feeds of a cluster: index "a" of sh shards with re replicas each,
\* placed from node offset off; withA: "a" is in the size and ILM feeds
Feeds(sh, re, off, withB, withSys, rev, n2, primaryFirst, withA) ==
    LET rows == IndexRows(IdxA, sh, re, off) \o
                (IF withB THEN IndexRows(IdxB, 1, 0, 1) ELSE <<>>) \o
                (IF withSys THEN IndexRows(IdxSys, 1, 0, 0) ELSE <<>>)
    IN  [indices |-> IF rev THEN Reverse(rows) ELSE rows,
         nodes |-> <<[id |-> "n1", data |-> Str("hot"),
                      instance_configuration |-> Str("p1")]>> \o n2,
         stats |-> (IF withA.stats THEN <<StatsEntry(IdxA, sh, re, primaryFirst)>>
                    ELSE <<>>) \o
                   <<StatsEntry(IdxB, 1, 0, TRUE), StatsEntry(IdxSys, 1, 0, TRUE)>>,
         ilm |-> (IF withA.ilm THEN <<IlmEntry(IdxA, TRUE, "logs")>> ELSE <<>>) \o
                 <<IlmEntry(IdxB, FALSE, ""), IlmEntry(IdxSys, TRUE, "sys")>>]

JoinInputs ==
    {Feeds(sh, re, off, withB, withSys, rev, n2, primaryFirst, withA) :
        sh \in 1..MaxShards, re \in 0..MaxReplicas, off \in {0, 1},
        withB \in BOOLEAN, withSys \in BOOLEAN, rev \in BOOLEAN,
        n2 \in Node2Entries, primaryFirst \in BOOLEAN,
        withA \in [stats : BOOLEAN, ilm : BOOLEAN]}

GiB(n) == BigShift(<<n>>, 3)

RoleData == <<"d","a","t","a">>
RoleDataHot == <<"d","a","t","a","_","h","o","t">>
RoleMaster == <<"m","a","s","t","e","r">>
RoleIngest == <<"i","n","g","e","s","t">>
RoleUpper == <<"D","A","T","A">>

NodeStatEntry(id, mem, roles, product) ==
    [id |-> id, name |-> Str(NodeNames[id]),
     roles |-> [present |-> TRUE, list |-> roles],
     mem |-> Num(mem), fs_total |-> Num(GiB(100)),
     store |-> Num(BigShift(<<512, 40>>, 2)),
     region |-> Str("r1"), instance_configuration |-> product,
     availability_zone |-> Str("z1"), data |-> Str("hot")]

Price(std, gold, plat, ent) ==
    [standard |-> PriceText(std), gold |-> PriceText(gold),
     platinum |-> PriceText(plat), enterprise |-> PriceText(ent)]

PricesA == Price(<<"$","0",".","0","5">>, <<"$","0",".","0","6","2","5">>,
                 <<"$","0",".","1">>, <<"$","1">>)
PricesB == Price(<<"$","0",".","0","7">>, <<"$","0",".","0","8">>,
                 <<"$","0",".","2">>, <<"$","2">>)
PricesFree == Price(<<"$","0">>, <<"$","0",".","0","0">>, <<"$","0">>, <<"$","0">>)

PriceRow(product, prices) ==
    [cloud_provider |-> "aws", region |-> "Region 1", region_code |-> Str("r1"),
     product |-> Str(product), unit |-> "per GB RAM per hour"] @@ prices

\* price tables: product p1 listed 0..MaxDupRows times, at the same prices or
\* at others, and product p2 free of charge
PricingTables ==
    {[i \in 1..d |-> PriceRow("p1", IF i = 1 \/ same THEN PricesA ELSE PricesB)] \o free :
        d \in 0..MaxDupRows, same \in BOOLEAN,
        free \in {<<>>, <<PriceRow("p2", PricesFree)>>}}

DefaultNodeStats ==
    <<NodeStatEntry("n1", GiB(8), <<RoleDataHot>>, Str("p1")),
      NodeStatEntry("n2", GiB(4), <<RoleData, RoleIngest>>, Str("p1"))>>

DefaultPricing == <<PriceRow("p1", PricesA)>>

DefaultJoin ==
    [indices |-> IndexRows(IdxA, 1, 0, 0),
     nodes |-> <<[id |-> "n1", data |-> Str("hot"),
                  instance_configuration |-> Str("p1")]>>,
     stats |-> <<StatsEntry(IdxA, 1, 0, TRUE)>>,
     ilm |-> <<IlmEntry(IdxA, TRUE, "logs")>>]

(***************************************************************************)
(* The scripts as one state machine; prog is the script that is run        *)
(***************************************************************************)
sizeVars == <<size_str, size_n, formatted, parsed>>

fileVars == <<indices_file, nodes_file, indices_stats_file, ilm_explain_file,
              nodes_stats_file, pricing_file, cat_indices_file, ilm_policies_file,
              bad_files>>

costVars == <<indices_df, pricing_df, nodes_stat_df, nodes_pricing, index_costs,
              combined_data, output,
          cat_indices_file, ilm_policies_file, report>>

vars == <<prog, pc, sizeVars, fileVars, costVars, report>>

NoSizeRun ==
    size_str = <<>> /\ size_n = <<>> /\ formatted = <<>> /\ parsed = NoOutcome

NoFiles ==
    /\ indices_file = <<>> /\ nodes_file = <<>> /\ indices_stats_file = <<>>
    /\ ilm_explain_file = <<>> /\ nodes_stats_file = <<>> /\ pricing_file = <<>>
    /\ cat_indices_file = <<>> /\ ilm_policies_file = <<>>
    /\ bad_files = {}

NoTables ==
    /\ indices_df = <<>> /\ pricing_df = <<>> /\ nodes_stat_df = <<>>
    /\ nodes_pricing = <<>> /\ index_costs = <<>> /\ combined_data = <<>>
    /\ output = <<>>
    /\ report = NoReport

InitSize ==
    /\ prog = "size"
    /\ \/ pc = "parse"  /\ size_str \in SizeStrings /\ size_n = <<>>
       \/ pc = "format" /\ size_str = <<>> /\ size_n \in ByteCounts
    /\ formatted = <<>>
    /\ parsed = NoOutcome
    /\ NoFiles /\ NoTables

ParseSize ==
    /\ prog = "size" /\ pc = "parse"
    /\ parsed' = parse_size(size_str)
    /\ pc' = "parsed"
    /\ UNCHANGED <<prog, size_str, size_n, formatted, fileVars, costVars, report>>

FormatSize ==
    /\ prog = "size" /\ pc = "format"
    /\ formatted' = format_size(size_n, 1)
    /\ pc' = "formatted"
    /\ UNCHANGED <<prog, size_str, size_n, parsed, fileVars, costVars, report>>

ParseFormatted ==
    /\ prog = "size" /\ pc = "formatted"
    /\ parsed' = parse_size(formatted)
    /\ pc' = "roundtrip"
    /\ UNCHANGED <<prog, size_str, size_n, formatted, fileVars, costVars, report>>

NextSize == ParseSize \/ FormatSize \/ ParseFormatted

SpecSize == InitSize /\ [][NextSize]_vars

(***************************************************************************)
(* calculate_index_usage.main                                              *)
(***************************************************************************)
\* the files hold the feeds j of the join, node statistics ns, prices pt
InitFiles(j, ns, pt) ==
    /\ indices_file = j.indices /\ nodes_file = j.nodes
    /\ indices_stats_file = j.stats /\ ilm_explain_file = j.ilm
    /\ nodes_stats_file = ns /\ pricing_file = pt
    /\ cat_indices_file = <<>> /\ ilm_policies_file = <<>>
    /\ bad_files = {}

\* line 368
IndexData ==
    /\ prog = "cost" /\ pc = "start"
    /\ LET r == process_elasticsearch_index_data(bad_files, indices_file,
                    nodes_file, indices_stats_file, ilm_explain_file)
       IN  /\ indices_df' = r.df
           /\ pc' = IF r.exit THEN "exit" ELSE "indexed"
           /\ output' = IF r.exit THEN Append(output, "Error") ELSE output
    /\ UNCHANGED <<prog, sizeVars, fileVars, report, pricing_df, nodes_stat_df,
                   nodes_pricing, index_costs, combined_data>>

\* line 369
Pricing ==
    /\ prog = "cost" /\ pc = "indexed"
    /\ LET r == process_elastic_pricing(bad_files, pricing_file)
       IN  /\ pricing_df' = r.df
           /\ pc' = IF r.exit THEN "exit" ELSE "pricing_read"
           /\ output' = IF r.exit THEN Append(output, "Error") ELSE output
    /\ UNCHANGED <<prog, sizeVars, fileVars, report, indices_df, nodes_stat_df,
                   nodes_pricing, index_costs, combined_data>>

\* line 370
NodesData ==
    /\ prog = "cost" /\ pc = "pricing_read"
    /\ LET r == process_elasticsearch_nodes_data(bad_files, nodes_stats_file)
       IN  /\ nodes_stat_df' = r.df
           /\ pc' = IF r.exit THEN "exit" ELSE "nodes_read"
           /\ output' = IF r.exit THEN Append(output, "Error") ELSE output
    /\ UNCHANGED <<prog, sizeVars, fileVars, report, indices_df, pricing_df,
                   nodes_pricing, index_costs, combined_data>>

\* line 371; an exception is not caught: the traceback ends the run
CalculatePricing ==
    /\ prog = "cost" /\ pc = "nodes_read"
    /\ LET r == calculate_pricing(nodes_stat_df, pricing_df)
       IN  /\ nodes_pricing' = r.df
           /\ pc' = IF r.raised THEN "crash" ELSE "priced"
           /\ output' = IF r.raised THEN Append(output, "Traceback") ELSE output
    /\ UNCHANGED <<prog, sizeVars, fileVars, report, indices_df, pricing_df,
                   nodes_stat_df, index_costs, combined_data>>

\* line 372
CalculateIndexCosts ==
    /\ prog = "cost" /\ pc = "priced"
    /\ LET r == calculate_index_costs(indices_df, nodes_pricing)
       IN  /\ index_costs' = r.df
           /\ pc' = IF r.raised THEN "crash" ELSE "costed"
           /\ output' = IF r.raised THEN Append(output, "Traceback") ELSE output
    /\ UNCHANGED <<prog, sizeVars, fileVars, report, indices_df, pricing_df,
                   nodes_stat_df, nodes_pricing, combined_data>>

\* lines 375-384
PrintTables ==
    /\ prog = "cost" /\ pc = "costed"
    /\ output' = output \o <<"INDICES INFORMATION", "PRICING INFORMATION",
                             "NODE STATISTICS", "NODE PRICING", "INDEX COSTS">>
    /\ pc' = "printed"
    /\ UNCHANGED <<prog, sizeVars, fileVars, report, indices_df, pricing_df,
                   nodes_stat_df, nodes_pricing, index_costs, combined_data>>

\* lines 387-389
ExportCsv ==
    /\ prog = "cost" /\ pc = "printed"
    /\ output' = Append(output, "elasticsearch_data.csv")
    /\ pc' = "done"
    /\ UNCHANGED <<prog, sizeVars, fileVars, report, indices_df, pricing_df,
                   nodes_stat_df, nodes_pricing, index_costs, combined_data>>

NextCost ==
    \/ IndexData \/ Pricing \/ NodesData \/ CalculatePricing
    \/ CalculateIndexCosts \/ PrintTables \/ ExportCsv

(***************************************************************************)
(* index_nodes_ilm_reporting.main                                          *)
(***************************************************************************)
\* line 135
JoinData ==
    /\ prog = "join" /\ pc = "start"
    /\ LET r == process_elasticsearch_data(bad_files, indices_file, nodes_file,
                    indices_stats_file, ilm_explain_file)
       IN  /\ combined_data' = r.df
           /\ pc' = IF r.exit THEN "exit" ELSE "joined"
           /\ output' = IF r.exit THEN Append(output, "Error") ELSE output
    /\ UNCHANGED <<prog, sizeVars, fileVars, report, indices_df, pricing_df,
                   nodes_stat_df, nodes_pricing, index_costs>>

\* lines 138-150
JoinExport ==
    /\ prog = "join" /\ pc = "joined"
    /\ output' = output \o <<"rows", "elasticsearch_data.csv">>
    /\ pc' = "done"
    /\ UNCHANGED <<prog, sizeVars, fileVars, report, indices_df, pricing_df,
                   nodes_stat_df, nodes_pricing, index_costs, combined_data>>

NextJoin == JoinData \/ JoinExport

\* the join of both scripts over every cluster, with one node and price table
InitJoin ==
    /\ prog \in {"cost", "join"} /\ pc = "start"
    /\ \E j \in JoinInputs : InitFiles(j, DefaultNodeStats, DefaultPricing)
    /\ NoSizeRun /\ NoTables

SpecJoin == InitJoin /\ [][NextCost \/ NextJoin]_vars

(***************************************************************************)
(* elastic_ilm_report.main                                                 *)
(***************************************************************************)
MaxDays == 2

\* the index "<prefix>-2024.01.0<d>"
Dated(prefix, d) ==
    prefix \o <<"-", "2", "0", "2", "4", ".", "0", "1", ".", "0", DigitChars[d + 1]>>

StoreSizes == {<<"5","0","0","m","b">>, <<"7","0","0","m","b">>}

\* the indices a cat_indices.txt may list, in file order
CatNames ==
    [d \in 1..MaxDays |-> Dated(<<"l">>, d)] \o
    <<Dated(<<"m">>, 1), IdxA, Dated(IdxSys, 1), IdxSys>>

\* every choice of listed indices and of their store sizes
CatFiles ==
    {Flatten([i \in 1..Len(CatNames) |->
                IF pick[i] = <<>> THEN <<>>
                ELSE <<[index |-> CatNames[i], doc_count |-> 10 * i,
                        store_size |-> pick[i]]>>]) :
        pick \in [1..Len(CatNames) -> StoreSizes \cup {<<>>}]}

\* the index "d-2024.MM.DD" of the k-th day of 2024, k <= 59
DayIndex(k) ==
    <<"d", "-", "2", "0", "2", "4", ".", "0", DigitChars[((k - 1) \div 31) + 2], ".",
      DigitChars[((((k - 1) % 31) + 1) \div 10) + 1],
      DigitChars[((((k - 1) % 31) + 1) % 10) + 1]>>

\* the numbers of days around the window of estimate_daily_ingestion
WindowDays == {RecentDays - 1, RecentDays, RecentDays + 1, RecentDays + 2}

\* one index a day for n days, day k holding k or n + 1 - k megabytes, listed
\* from the first day or from the last
LongCatFiles ==
    {[i \in 1..n |->
        LET k == IF rev THEN n + 1 - i ELSE i
        IN  [index |-> DayIndex(k), doc_count |-> k,
             store_size |-> IntToStr(IF grow THEN k ELSE n + 1 - k) \o <<"m", "b">>]] :
        n \in WindowDays, rev \in BOOLEAN, grow \in BOOLEAN}

\* the ILM state of every index of CatNames; sys is the system indices' policy
ExplainFiles ==
    {[i \in 1..Len(CatNames) |->
        IF IsSystemIndex(CatNames[i]) THEN IlmEntry(CatNames[i], sys # "", sys)
        ELSE IF CatNames[i] = IdxA THEN IlmEntry(IdxA, FALSE, "")
        ELSE IF CatNames[i][1] = "m" THEN IlmEntry(CatNames[i], TRUE, "metrics")
        ELSE IlmEntry(CatNames[i], TRUE, "logs")] :
        sys \in {"", "logs", "sys"}}

PolicyFile ==
    <<[name |-> "logs", phases |-> <<"hot", "delete">>],
      [name |-> "metrics", phases |-> <<"hot">>],
      [name |-> "sys", phases |-> <<"hot">>]>>

\* what may be wrong with the snapshots: a file that is absent, explain data
\* that is no mapping with an 'indices' key, policies that are no mapping
IlmDamage == IlmFiles \cup {"ilm_explain.indices", "ilm_policies.dict"}

InitIlm ==
    /\ prog = "ilm" /\ pc = "start"
    /\ indices_file = <<>> /\ nodes_file = <<>> /\ indices_stats_file = <<>>
    /\ nodes_stats_file = <<>> /\ pricing_file = <<>>
    /\ \/ cat_indices_file \in CatFiles \cup LongCatFiles /\ bad_files = {}
       \/ /\ cat_indices_file \in {f \in CatFiles : Len(f) <= 1}
          /\ bad_files \in (SUBSET IlmDamage) \ {{}}
    /\ ilm_explain_file \in ExplainFiles
    /\ ilm_policies_file = PolicyFile
    /\ NoSizeRun /\ NoTables

\* line 167; lines 175-184 for an exception
GenerateReport ==
    /\ prog = "ilm" /\ pc = "start"
    /\ report' = generate_ilm_report(bad_files, ilm_policies_file,
                                     ilm_explain_file, cat_indices_file)
    /\ pc' = IF report'.kind = "raised" THEN "failed" ELSE "generated"
    /\ output' = IF report'.kind = "raised" THEN Append(output, "Error") ELSE output
    /\ UNCHANGED <<prog, sizeVars, fileVars, indices_df, pricing_df, nodes_stat_df,
                   nodes_pricing, index_costs, combined_data>>

\* lines 168-172: whatever was returned is printed and written
SaveReport ==
    /\ prog = "ilm" /\ pc = "generated"
    /\ output' = output \o <<report.text, "ilm_report.txt">>
    /\ pc' = "done"
    /\ UNCHANGED <<prog, sizeVars, fileVars, report, indices_df, pricing_df,
                   nodes_stat_df, nodes_pricing, index_costs, combined_data>>

NextIlm == GenerateReport \/ SaveReport

SpecIlm == InitIlm /\ [][NextIlm]_vars

(***************************************************************************)
(* The cost pipeline over node statistics and price tables                 *)
(***************************************************************************)
\* 2 GiB less one byte
BelowMinMemory == <<1023, 1023, 1023, 1>>

NodeStatsFiles ==
    {<<NodeStatEntry("n1", mem, roles, product)>> \o n2 :
        mem \in {GiB(1), BelowMinMemory, GiB(2), GiB(8)},
        roles \in {<<>>, <<RoleMaster>>, <<RoleMaster, RoleDataHot>>, <<RoleUpper>>},
        product \in {Str("p0"), Str("p1"), Str("p2")},
        n2 \in {<<>>, <<NodeStatEntry("n2", GiB(4), <<RoleData, RoleIngest>>,
                                      Str("p1"))>>}}

InitPricing ==
    /\ prog = "cost" /\ pc = "start"
    /\ \E ns \in NodeStatsFiles, pt \in PricingTables : InitFiles(DefaultJoin, ns, pt)
    /\ NoSizeRun /\ NoTables

SpecPricing == InitPricing /\ [][NextCost]_vars

\* the clusters whose four feeds are complete
CompleteInputs ==
    {j \in JoinInputs :
        /\ Len(j.nodes) = 2 /\ j.nodes[2].data # NaN
        /\ \E i \in 1..Len(j.stats) : j.stats[i].index = IdxA
        /\ \E i \in 1..Len(j.ilm) : j.ilm[i].index = IdxA}

\* node n2: as n1, without a data role, or of the product that is free
CostNodeStats ==
    {<<NodeStatEntry("n1", GiB(8), <<RoleDataHot>>, Str("p1")), n2>> :
        n2 \in {NodeStatEntry("n2", GiB(4), <<RoleData, RoleIngest>>, Str("p1")),
                NodeStatEntry("n2", GiB(4), <<RoleMaster>>, Str("p1")),
                NodeStatEntry("n2", GiB(4), <<RoleData>>, Str("p2"))}}

Init ==
    /\ prog = "cost" /\ pc = "start"
    /\ \E j \in CompleteInputs, ns \in CostNodeStats, pt \in PricingTables :
          InitFiles(j, ns, pt)
    /\ NoSizeRun /\ NoTables

Spec == Init /\ [][NextCost]_vars

(***************************************************************************)
(* The cost pipeline over snapshots that are absent, do not parse, or hold  *)
(* no entry                                                                *)
(***************************************************************************)
CostFiles == InputFiles \cup {"nodes_stats", "pricing"}

\* the feeds of a one-index cluster, complete or with one feed empty
FatalJoins ==
    {DefaultJoin} \cup
    {[DefaultJoin EXCEPT ![f] = <<>>] : f \in {"indices", "nodes", "stats", "ilm"}}

\* every set of damaged files, over complete and over empty feeds
InitFatal ==
    /\ prog = "cost" /\ pc = "start"
    /\ \E j \in FatalJoins :
          /\ indices_file = j.indices /\ nodes_file = j.nodes
          /\ indices_stats_file = j.stats /\ ilm_explain_file = j.ilm
    /\ nodes_stats_file \in {DefaultNodeStats, <<>>}
    /\ pricing_file = DefaultPricing
    /\ cat_indices_file = <<>> /\ ilm_policies_file = <<>>
    /\ bad_files \in SUBSET CostFiles
    /\ NoSizeRun /\ NoTables

SpecFatal == InitFatal /\ [][NextCost]_vars

(***************************************************************************)
(* The cost pipeline over price cells that are no price and node records   *)
(* that lack a field                                                       *)
(***************************************************************************)
\* gold reads "$N/A"
PricesUnparseable ==
    Price(<<"$","0",".","0","5">>, <<"$","N","/","A">>, <<"$","0",".","1">>, <<"$","1">>)

\* the gold cell is empty
PricesBlank == [PricesA EXCEPT !.gold = PriceNaN]

\* prices without the currency prefix
PricesPlain ==
    Price(<<"0",".","0","5">>, <<"0",".","0","6","2","5">>, <<"0",".","1">>, <<"1">>)

\* product p1 with well-formed or odd cells, alone or beside a product p2
OddPricingTables ==
    {<<PriceRow("p1", x)>> \o rest :
        x \in {PricesA, PricesUnparseable, PricesBlank, PricesPlain},
        rest \in {<<>>, <<PriceRow("p2", PricesFree)>>,
                  <<PriceRow("p2", PricesUnparseable)>>}}

\* the fields of a node record that the code reads without a default
NodeFields == {"mem", "fs_total", "store", "roles"}

\* the node record without one of its fields: .get() gives None
Lacking(e, field) ==
    CASE field = "mem" -> [e EXCEPT !.mem = NaN]
      [] field = "fs_total" -> [e EXCEPT !.fs_total = NaN]
      [] field = "store" -> [e EXCEPT !.store = NaN]
      [] field = "roles" -> [e EXCEPT !.roles = [present |-> FALSE, list |-> <<>>]]
      [] OTHER -> e

\* node n1 complete or lacking a field, alone, before or after a complete n2
LackingNodeStats ==
    {IF first THEN <<n1>> \o n2 ELSE n2 \o <<n1>> :
        n1 \in {Lacking(NodeStatEntry("n1", mem, <<RoleMaster, RoleDataHot>>, Str("p1")),
                        field) :
                  mem \in {GiB(1), GiB(8)}, field \in NodeFields \cup {"none"}},
        n2 \in {<<>>, <<NodeStatEntry("n2", GiB(4), <<RoleData, RoleIngest>>,
                                      Str("p1"))>>},
        first \in BOOLEAN}

InitOddInputs ==
    /\ prog = "cost" /\ pc = "start"
    /\ \/ \E ns \in NodeStatsFiles, pt \in OddPricingTables :
             InitFiles(DefaultJoin, ns, pt)
       \/ \E ns \in LackingNodeStats : InitFiles(DefaultJoin, ns, DefaultPricing)
    /\ NoSizeRun /\ NoTables

SpecOddInputs == InitOddInputs /\ [][NextCost]_vars

\* every script over its inputs
SpecAll == (InitJoin \/ InitIlm) /\ [][NextCost \/ NextJoin \/ NextIlm]_vars

(***************************************************************************)
(* Claims about the join and the cost report                               *)
(***************************************************************************)
NonSystemRows(rows) == SelectSeq(rows, LAMBDA r : ~IsSystemIndex(r.index))

\* C1: the table process_elasticsearch_index_data returns has exactly one row
\* per input shard row whose index name does not start with '.': the three
\* joins never add, drop or merge rows, whatever the replica copies.
C1_JoinCardinality ==
    (prog = "cost" /\ pc = "indexed") =>
        Len(indices_df) = Len(NonSystemRows(indices_file))

NoSystemRow(table) == \A i \in 1..Len(table) : ~IsSystemIndex(table[i].index)

\* the indices of cat_indices.txt that are no system indices, sizes parsed
UserIndices == Sized(get_indices(NonSystemRows(cat_indices_file)))

\* C2: no index whose name starts with '.' appears in a joined or aggregated
\* output: not in the two shard joins, not in the index cost report, and not
\* in the ILM report's per-date buckets, total usage or per-policy tallies.
C2_NoSystemIndex ==
    /\ NoSystemRow(indices_df)
    /\ NoSystemRow(combined_data)
    /\ NoSystemRow(index_costs)
    /\ report.kind = "report" =>
          /\ report.ingestion.daily_ingestion = Buckets(UserIndices)
          /\ report.total_usage =
                 SignedSum([i \in 1..Len(UserIndices) |-> UserIndices[i].size_bytes])
          /\ \A p \in 1..Len(report.policy_usage) :
                 NoSystemRow([i \in 1..Len(report.policy_usage[p].indices_list) |->
                                [index |-> report.policy_usage[p].indices_list[i]]])

\* memory of at least 2 GiB and a role name that contains "data"
Eligible(row) ==
    /\ BigLeq(<<0, 0, 0, 2>>, row.memory.n)
    /\ \E i \in 1..Len(row.roles.list) :
           Contains(row.roles.list[i], <<"d", "a", "t", "a">>)

\* the same, the role names compared without regard to letter case
EligibleAnyCase(row) ==
    /\ BigLeq(<<0, 0, 0, 2>>, row.memory.n)
    /\ \E i \in 1..Len(row.roles.list) :
           Contains(Lower(row.roles.list[i]), <<"d", "a", "t", "a">>)

AllCostsZero(row) ==
    \A t \in Tiers : row.hr[t] = Num(<<>>) /\ row.yr[t] = Num(<<>>)

\* every tier price of the row reads as the number 0
AllPricesZero(row) ==
    \A t \in Tiers :
        /\ row.price[t].t = "str"
        /\ PyFloat(StripDollar(row.price[t].c)).kind = "num"
        /\ PyFloat(StripDollar(row.price[t].c)).mant = 0

\* C3 as stated: for every node in the output of calculate_pricing, with
\* eligible meaning memory >= 2 GiB and some role name containing "data", all
\* eight cost fields are exactly 0.0 iff the node is not eligible.
C3_ZeroIffNotEligible ==
    (prog = "cost" /\ pc = "priced") =>
        \A i \in 1..Len(nodes_pricing) :
            AllCostsZero(nodes_pricing[i]) <=> ~Eligible(nodes_pricing[i])

\* C3 amended: with the role names compared without regard to case, a node
\* that is not eligible has all eight cost fields exactly 0.0; an eligible
\* node has them all 0.0 only if every tier price of its row is 0.
C3_ZeroWhenNotEligible ==
    (prog = "cost" /\ pc = "priced") =>
        \A i \in 1..Len(nodes_pricing) :
            /\ ~EligibleAnyCase(nodes_pricing[i]) => AllCostsZero(nodes_pricing[i])
            /\ (EligibleAnyCase(nodes_pricing[i]) /\ AllCostsZero(nodes_pricing[i]))
                   => AllPricesZero(nodes_pricing[i])

\* a node that is not eligible beside an eligible one that has a cost
C3_Witness ==
    /\ prog = "cost" /\ pc = "priced"
    /\ \E i, j \in 1..Len(nodes_pricing) :
          /\ ~EligibleAnyCase(nodes_pricing[i]) /\ AllCostsZero(nodes_pricing[i])
          /\ EligibleAnyCase(nodes_pricing[j]) /\ ~AllCostsZero(nodes_pricing[j])

\* the node's (region_code, product) is found in the pricing table
Priced(row) ==
    \E k \in 1..Len(pricing_df) :
        /\ pricing_df[k].region_code = row.region_code
        /\ pricing_df[k].product = row.product

\* the price text without its currency prefix, in units of 10^-PriceDecimals
PriceOf(cell) ==
    LET f == PyFloat(StripDollar(cell.c))
    IN  BigFromInt(f.mant * Pow10(PriceDecimals - f.dec))

\* C4: for every eligible node whose (region_code, product) is found in the
\* pricing table and each tier t, t/hr = memory_gb * (the price of t with the
\* currency prefix stripped) and t/yr = t/hr * 8760.
C4_CostFormula ==
    (prog = "cost" /\ pc = "priced") =>
        \A i \in 1..Len(nodes_pricing) : \A t \in Tiers :
            (EligibleAnyCase(nodes_pricing[i]) /\ Priced(nodes_pricing[i])) =>
                /\ nodes_pricing[i].hr[t] =
                       Num(BigMul(nodes_pricing[i].memory.n,
                                  PriceOf(nodes_pricing[i].price[t])))
                /\ nodes_pricing[i].yr[t] =
                       Num(BigMulSmall(nodes_pricing[i].hr[t].n, 8760))

\* an eligible node with a price and a cost that is not 0
C4_Witness ==
    /\ prog = "cost" /\ pc = "priced"
    /\ \E i \in 1..Len(nodes_pricing) :
          /\ EligibleAnyCase(nodes_pricing[i]) /\ Priced(nodes_pricing[i])
          /\ nodes_pricing[i].yr["standard"].t = "num"
          /\ nodes_pricing[i].yr["standard"].n # <<>>

\* the rows of the node pricing table for the node that hosts a shard row
Hosting(r) ==
    {j \in 1..Len(nodes_pricing) :
        nodes_pricing[j].id = r.id /\ nodes_pricing[j].node = Str(r.node)}

\* the t/yr of the node hosting the shard row r; nothing where the node has
\* no row or no price
NodeYr(r, t) ==
    IF Hosting(r) = {} THEN <<>>
    ELSE LET j == CHOOSE j \in Hosting(r) : \A k \in Hosting(r) : j <= k
         IN  IF nodes_pricing[j].yr[t].t = "num" THEN nodes_pricing[j].yr[t].n
             ELSE <<>>

\* the joined shard rows of an index
RowsOf(index) == SelectSeq(indices_df, LAMBDA r : r.index = index)

\* C5: for every index of the report and each tier t, the row's t/yr is the
\* sum, over the joined shard rows of the index, of the t/yr of the node
\* hosting the shard, and total_index_size is the sum of those rows' sizes.
C5_ReportSums ==
    (prog = "cost" /\ pc = "costed") =>
        \A k \in 1..Len(index_costs) :
            LET rows == RowsOf(index_costs[k].index)
            IN  /\ \A t \in Tiers :
                       index_costs[k].yr[t] =
                           Num(BigSum([i \in 1..Len(rows) |-> NodeYr(rows[i], t)]))
                /\ index_costs[k].total_index_size =
                       Num(BigSum([i \in 1..Len(rows) |->
                                     IF rows[i].size.t = "num" THEN rows[i].size.n
                                     ELSE <<>>]))

\* the shard placement rows of an index
ShardRowsOf(index) == SelectSeq(indices_file, LAMBDA r : r.index = index)

\* C6: for every index of the report, shard_type is "primary+replica" iff the
\* index has at least one primary and at least one replica shard row, and
\* "primary-only" otherwise.
C6_ShardType ==
    (prog = "cost" /\ pc = "costed") =>
        \A k \in 1..Len(index_costs) :
            LET rows == ShardRowsOf(index_costs[k].index)
                both == /\ \E i \in 1..Len(rows) : rows[i].prirep = "p"
                        /\ \E i \in 1..Len(rows) : rows[i].prirep = "r"
            IN  index_costs[k].shard_type =
                    IF both THEN "primary+replica" ELSE "primary-only"

\* a report with an index of either type
C6_Witness ==
    /\ prog = "cost" /\ pc = "costed"
    /\ \E k \in 1..Len(index_costs) : index_costs[k].shard_type = "primary+replica"
    /\ \E k \in 1..Len(index_costs) : index_costs[k].shard_type = "primary-only"

\* the indices_stats size of the primary copy of shard row r
PrimaryBytes(r) ==
    LET e == SelectSeq(indices_stats_file, LAMBDA x : x.index = r.index)[1]
        sh == SelectSeq(e.shards, LAMBDA x : x.shard = r.shard)[1]
    IN  SelectSeq(sh.copies, LAMBDA c : c.primary)[1].size.n

\* C7: end to end, an index with exactly one primary shard of s bytes and no
\* replica, on an eligible node of m GiB with tier price p, has exactly one
\* report row, with shard_type "primary-only", total_index_size = s and
\* tier/yr = m * p * 8760.
C7_EndToEnd ==
    (prog = "cost" /\ pc = "costed") =>
        \A index \in {indices_file[i].index : i \in 1..Len(indices_file)} :
            LET rows == ShardRowsOf(index)
                node == SelectSeq(nodes_stat_df, LAMBDA n : n.id = rows[1].id)
                prices == SelectSeq(pricing_file,
                             LAMBDA q : /\ q.region_code = node[1].region_code
                                        /\ q.product = node[1].product)
                found == SelectSeq(index_costs, LAMBDA c : c.index = index)
            IN  (/\ ~IsSystemIndex(index)
                 /\ Len(rows) = 1 /\ rows[1].prirep = "p"
                 /\ Len(node) = 1 /\ EligibleAnyCase(node[1])
                 /\ prices # <<>>)
                => /\ Len(found) = 1
                   /\ found[1].shard_type = "primary-only"
                   /\ found[1].total_index_size = Num(PrimaryBytes(rows[1]))
                   /\ \A t \in Tiers : \A q \in 1..Len(prices) :
                         found[1].yr[t] =
                             Num(BigMulSmall(BigMul(node[1].memory.n,
                                                    PriceOf(prices[q][t])), 8760))

(***************************************************************************)
(* Claims about parse_size and format_size (checked under SpecSize)        *)
(***************************************************************************)
\* the unit the claim gives a suffix, as a power of 1024:
\* b = 1, k/kb = 1024, m/mb = 1024^2, g/gb = 1024^3, t/tb = 1024^4
ClaimedUnit(u) ==
    LET c == LowerChar(u[1])
    IN  CASE c = "b" -> Pow1024(0)
          [] c = "k" -> Pow1024(1)
          [] c = "m" -> Pow1024(2)
          [] c = "g" -> Pow1024(3)
          [] c = "t" -> Pow1024(4)

\* int(x * unit(u)) for a numeric prefix x
ClaimedBytes(x, u) ==
    LET f == PyFloat(x)
    IN  Returned(f.neg, BigDivSmall(BigMul(BigFromInt(f.mant), ClaimedUnit(u)),
                                    Pow10(f.dec)))

\* C8: for every numeric prefix x and every suffix u among kb, mb, gb, tb and
\* b, k, m, g, t in any letter case, parse_size(x + u) returns int(x * unit(u)).
C8_ParseSizeAllSuffixes ==
    (prog = "size" /\ pc = "parsed") =>
        \A x \in NumericPrefixes :
            \A u \in TwoLetterSuffixes \cup OneLetterSuffixes :
                size_str = x \o u => parsed = ClaimedBytes(x, u)

\* a string that is no numeric prefix followed by a recognized suffix
Malformed(s) ==
    ~ \E k \in {1, 2} :
        /\ Len(s) > k
        /\ LastChars(s, k) \in TwoLetterSuffixes \cup OneLetterSuffixes
        /\ PyFloat(DropLast(s, k)).kind = "num"

\* C9: parse_size never raises, and returns 0 for every malformed string
\* (empty, unrecognized suffix, non-numeric prefix).
C9_ParseSizeNeverRaises ==
    (prog = "size" /\ pc = "parsed") =>
        /\ parsed.exc = "none"
        /\ Malformed(size_str) => parsed.val = <<>>

\* C10: parse_size(format_size(n)) differs from n by at most the rounding
\* error of the two-decimal representation in the unit format_size chose:
\* half a hundredth of 1024^k, and the one byte int() may cut off.
C10_RoundTrip ==
    (prog = "size" /\ pc = "roundtrip") =>
        /\ parsed.exc = "none"
        /\ ~parsed.neg
        /\ BigLeq(BigMulSmall(BigAbsDiff(parsed.val, size_n), 200),
                  BigAdd(Pow1024(UnitIndex(size_n)), <<200>>))

(***************************************************************************)
(* Claims about the ILM report                                             *)
(***************************************************************************)
\* the indices of cat_indices.txt as generate_ilm_report holds them
ListedIndices == Sized(get_indices(cat_indices_file))

\* the sum of the parsed store sizes of the indices whose date token is in
\* dates; the token <<>> stands for an index name without a date
DatedBytes(indices, dates) ==
    LET of == SelectSeq(indices, LAMBDA e : DateToken(e.index) \in dates)
    IN  SignedSum([i \in 1..Len(of) |-> of[i].size_bytes])

DistinctDates(indices) ==
    {DateToken(indices[i].index) : i \in 1..Len(indices)} \ {<<>>}

\* cat_indices.txt of the example: 500MB on 2024.01.01, 700MB on 2024.01.02
ExampleCatFile ==
    <<[index |-> Dated(<<"l">>, 1), doc_count |-> 10,
       store_size |-> <<"5","0","0","m","b">>],
      [index |-> Dated(<<"l">>, 2), doc_count |-> 20,
       store_size |-> <<"7","0","0","m","b">>]>>

\* C11: estimate_daily_ingestion has one bucket per distinct YYYY.MM.DD token
\* of the index names, holding the sum of the parsed store sizes of the
\* indices with that token; an index without a token is in no bucket but in
\* the total usage of the report; total = the sum of the buckets, num_days =
\* the number of distinct dates, avg_daily = total / num_days (500MB and
\* 700MB on two days: total 1200MB, num_days 2, avg_daily 600MB)
C11_DailyIngestion ==
    (prog = "ilm" /\ report.kind = "report") =>
        LET indices == ListedIndices
            dates == DistinctDates(indices)
            ing == report.ingestion
        IN  /\ ing.estimated <=> dates # {}
            /\ report.total_usage = DatedBytes(indices, dates \cup {<<>>})
            /\ ing.estimated =>
                  /\ Len(ing.daily_ingestion) = Cardinality(dates)
                  /\ \A d \in dates :
                        \E i \in 1..Len(ing.daily_ingestion) :
                           /\ ing.daily_ingestion[i].date = d
                           /\ ing.daily_ingestion[i].bytes = DatedBytes(indices, {d})
                  /\ ing.total_ingestion = DatedBytes(indices, dates)
                  /\ ing.num_days = Cardinality(dates)
                  /\ ing.avg_daily_ingestion =
                        FormatSigned(DatedBytes(indices, dates), Cardinality(dates))
                  /\ ing.total = FormatSigned(DatedBytes(indices, dates), 1)
            /\ cat_indices_file = ExampleCatFile =>
                  /\ ing.total_ingestion = [neg |-> FALSE, val |-> <<0, 0, 176, 1>>]
                  /\ ing.num_days = 2
                  /\ ing.avg_daily_ingestion = <<"6","0","0",".","0","0"," ","M","B">>

\* a report over two dates, two indices of one date and an index without date
C11_Witness ==
    /\ prog = "ilm" /\ report.kind = "report"
    /\ report.ingestion.estimated /\ report.ingestion.num_days = 2
    /\ \E i, j, k \in 1..Len(cat_indices_file) :
          /\ cat_indices_file[i].index = Dated(<<"l">>, 1)
          /\ cat_indices_file[j].index = Dated(<<"m">>, 1)
          /\ cat_indices_file[k].index = IdxA

\* a YYYY.MM.DD token as the number YYYYMMDD
DateNumber(token) ==
    DigitsVal(SubSeq(token, 1, 4) \o SubSeq(token, 6, 7) \o SubSeq(token, 9, 10))

\* the w chronologically latest of the dates
LatestDates(dates, w) ==
    {d \in dates : Cardinality({e \in dates : DateNumber(e) > DateNumber(d)}) < w}

\* C12: with D >= 1 distinct dates the trailing average is the sum of the
\* buckets of the min(30, D) chronologically latest dates divided by
\* min(30, D), and with D <= 30 it equals the average over all days
C12_TrailingWindow ==
    (prog = "ilm" /\ report.kind = "report" /\ report.ingestion.estimated) =>
        LET indices == ListedIndices
            dates == DistinctDates(indices)
            D == Cardinality(dates)
            w == IF D < 30 THEN D ELSE 30
            ing == report.ingestion
        IN  /\ D >= 1
            /\ {ing.sorted_dates[i] : i \in 1..Len(ing.sorted_dates)} =
                  LatestDates(dates, w)
            /\ ing.recent_30_days_ingestion =
                  DatedBytes(indices, LatestDates(dates, w))
            /\ ing.avg_recent_30_days =
                  FormatSigned(DatedBytes(indices, LatestDates(dates, w)), w)
            /\ D <= 30 => ing.avg_recent_30_days = ing.avg_daily_ingestion

\* an estimate over more than 30 dates whose trailing average is not the
\* average over all days
C12_Witness ==
    /\ prog = "ilm" /\ report.kind = "report" /\ report.ingestion.estimated
    /\ report.ingestion.num_days > 30
    /\ Len(report.ingestion.sorted_dates) = 30
    /\ report.ingestion.avg_recent_30_days # report.ingestion.avg_daily_ingestion

\* C13: when no listed index name holds a YYYY.MM.DD token (the empty listing
\* included) estimate_daily_ingestion returns the 'unable to estimate' result
\* and no quotient; whenever it divides, both divisors (the number of days and
\* the length of the window) are at least 1
C13_NoDivisionByZero ==
    (prog = "ilm" /\ report.kind = "report") =>
        LET ing == report.ingestion
        IN  /\ DistinctDates(ListedIndices) = {} =>
                  /\ ~ing.estimated
                  /\ ing.avg_daily_ingestion = <<>>
                  /\ ing.avg_recent_30_days = <<>>
            /\ ing.estimated => ing.num_days >= 1 /\ Len(ing.sorted_dates) >= 1

\* a report over a listing that is not empty and holds no dated index
C13_Witness ==
    /\ prog = "ilm" /\ report.kind = "report"
    /\ cat_indices_file # <<>>
    /\ DistinctDates(ListedIndices) = {}
    /\ ~report.ingestion.estimated

\* the entries of ilm_explain.json that are managed under the policy and are
\* not system indices
PolicyMembers(policy) ==
    SelectSeq(ilm_explain_file,
              LAMBDA e : /\ e.managed /\ e.policy = Str(policy)
                         /\ ~IsSystemIndex(e.index))

\* the listed indices among the members of a policy
ListedMembers(policy) ==
    SelectSeq(ListedIndices,
              LAMBDA x : \E i \in 1..Len(PolicyMembers(policy)) :
                            PolicyMembers(policy)[i].index = x.index)

\* C14: the tally of generate_ilm_report has, for each policy name, exactly
\* the indices that are managed, have that policy and are not system indices
\* (unmanaged and system indices are under no policy), and per policy the
\* count is the number of those indices, the total size the sum of their
\* parsed store sizes and the total documents the sum of their doc counts
C14_PolicyTally ==
    (prog = "ilm" /\ report.kind = "report") =>
        LET tally == report.policy_usage
            named == {ilm_explain_file[i].policy.s : i \in
                         {i \in 1..Len(ilm_explain_file) :
                             /\ ilm_explain_file[i].managed
                             /\ ~IsSystemIndex(ilm_explain_file[i].index)}}
        IN  /\ {tally[i].policy : i \in 1..Len(tally)} = named
            /\ \A i \in 1..Len(tally) :
                  LET members == PolicyMembers(tally[i].policy)
                      listed == ListedMembers(tally[i].policy)
                  IN  /\ tally[i].indices_list =
                            [k \in 1..Len(members) |-> members[k].index]
                      /\ tally[i].count = Len(members)
                      /\ tally[i].policy_total_size =
                            SignedSum([k \in 1..Len(listed) |-> listed[k].size_bytes])
                      /\ tally[i].policy_total_docs =
                            IntSum([k \in 1..Len(listed) |-> listed[k].doc_count])

(***************************************************************************)
(* Claims about the columns of the join                                    *)
(***************************************************************************)
\* C15: in the output of process_elasticsearch_index_data every primary shard
\* row with a numeric stored size s has raw_data_size = s / 1.5 (held in
\* thirds of a byte: 2 * s), and every replica shard row has raw_data_size
\* equal to the string "not applicable: replica"
C15_RawDataSize ==
    (prog = "cost" /\ pc # "start") =>
        \A i \in 1..Len(indices_df) :
            LET row == indices_df[i]
            IN  /\ (row.data_type = "primary" /\ row.size.t = "num") =>
                      row.raw_data_size = Num(BigMulSmall(row.size.n, 2))
                /\ row.data_type = "replica" =>
                      row.raw_data_size = Str("not applicable: replica")

\* the joined table of the script that ran
JoinOutput == IF prog = "cost" THEN indices_df ELSE combined_data

\* the shard rows of indices.json that are not of a system index
UserShardRows == SelectSeq(indices_file, LAMBDA r : ~IsSystemIndex(r.index))

HasIlmEntry(index) ==
    \E i \in 1..Len(ilm_explain_file) : ilm_explain_file[i].index = index

HasNodeEntry(id) == \E i \in 1..Len(nodes_file) : nodes_file[i].id = id

\* the rows of the join output made from a shard row: same index, same node
OutputRowsOf(shard) ==
    SelectSeq(JoinOutput, LAMBDA r : r.index = shard.index /\ r.node = shard.node)

\* C16: a non-system shard row whose index has no entry in the ILM explain
\* feed, or whose node id has no entry in the node feed, is still in the join
\* output of process_elasticsearch_index_data and of
\* process_elasticsearch_data, and its unmatched fields (ilm_policy, age,
\* ilm_phase; node_type, instance_configuration) hold the string "unknown"
C16_UnknownSentinel ==
    (prog \in {"cost", "join"} /\ pc \notin {"start", "exit"}) =>
        \A i \in 1..Len(UserShardRows) :
            LET shard == UserShardRows[i]
                rows == OutputRowsOf(shard)
            IN  /\ rows # <<>>
                /\ ~HasIlmEntry(shard.index) =>
                      \A k \in 1..Len(rows) :
                          /\ rows[k].ilm_policy = Str("unknown")
                          /\ rows[k].age = Str("unknown")
                          /\ rows[k].ilm_phase = Str("unknown")
                /\ ~HasNodeEntry(shard.id) =>
                      \A k \in 1..Len(rows) :
                          /\ rows[k].node_type = Str("unknown")
                          /\ rows[k].instance_configuration = Str("unknown")

\* primary or replica, as the output of the script that ran names it
RowRole(r) == IF prog = "cost" THEN r.data_type ELSE r.data

\* the copies of a shard-copy list whose routing.primary flag is false
ReplicaCopies(sh) == SelectSeq(sh.copies, LAMBDA c : c.primary = FALSE)

\* C17: a replica shard row of index i and shard id k is given the size of
\* the first copy of i's shard-copy list for shard k whose routing.primary
\* flag is false, never a size of another shard id of the index, and exactly
\* one size.  The shards of an index differ in size, so the output must hold
\* each shard's replica size once per replica shard row of that shard
C17_ReplicaSizePerShard ==
    (prog \in {"cost", "join"} /\ pc \notin {"start", "exit"}) =>
        \A i \in 1..Len(indices_stats_file) :
            LET e == indices_stats_file[i]
            IN  \A k \in 1..Len(e.shards) :
                    LET sh == e.shards[k]
                        placed == SelectSeq(UserShardRows,
                                      LAMBDA r : /\ r.index = e.index
                                                 /\ r.shard = sh.shard
                                                 /\ r.prirep = "r")
                        sized == SelectSeq(JoinOutput,
                                      LAMBDA r : /\ r.index = e.index
                                                 /\ RowRole(r) = "replica"
                                                 /\ r.size = ReplicaCopies(sh)[1].size)
                    IN  (~IsSystemIndex(e.index) /\ ReplicaCopies(sh) # <<>>) =>
                            Len(sized) = Len(placed)

(***************************************************************************)
(* Claims about missing prices and failing runs                            *)
(***************************************************************************)
\* the rows calculate_pricing returned for a node
PricingRowsOf(id) == SelectSeq(nodes_pricing, LAMBDA r : r.id = id)

\* C18: calculate_pricing completes without error when the (region_code,
\* product) of a node has no row in the pricing table; the node is kept, once,
\* with a missing (NaN) hourly and yearly cost in every tier when it is
\* eligible, and the nodes that have a price row have numeric costs
C18_MissingPrice ==
    /\ (prog = "cost" /\ pc = "crash") => nodes_pricing # <<>>
    /\ (prog = "cost" /\ pc = "priced") =>
          \A i \in 1..Len(nodes_stat_df) :
              LET node == nodes_stat_df[i]
                  rows == PricingRowsOf(node.id)
              IN  IF Priced(node)
                  THEN /\ rows # <<>>
                       /\ \A k \in 1..Len(rows) : \A t \in Tiers :
                             rows[k].hr[t].t = "num" /\ rows[k].yr[t].t = "num"
                  ELSE /\ Len(rows) = 1
                       /\ EligibleAnyCase(node) =>
                             \A t \in Tiers : rows[1].hr[t] = NaN /\ rows[1].yr[t] = NaN

\* an eligible node without a price row beside an eligible node with a cost
C18_Witness ==
    /\ prog = "cost" /\ pc = "priced"
    /\ \E i, j \in 1..Len(nodes_pricing) :
          /\ ~Priced(nodes_pricing[i]) /\ EligibleAnyCase(nodes_pricing[i])
          /\ nodes_pricing[i].yr["gold"] = NaN
          /\ Priced(nodes_pricing[j]) /\ EligibleAnyCase(nodes_pricing[j])
          /\ nodes_pricing[j].yr["gold"].t = "num"
          /\ nodes_pricing[j].yr["gold"].n # <<>>

\* a snapshot of the cost pipeline is missing, does not parse, or lacks its
\* entries (the pricing CSV may hold no row)
CostInputBroken ==
    \/ bad_files \cap CostFiles # {}
    \/ indices_file = <<>> \/ nodes_file = <<>> \/ indices_stats_file = <<>>
    \/ ilm_explain_file = <<>> \/ nodes_stats_file = <<>>

ReportOutputs ==
    {"INDICES INFORMATION", "PRICING INFORMATION", "NODE STATISTICS",
     "NODE PRICING", "INDEX COSTS", "elasticsearch_data.csv"}

\* no report section has been printed and no CSV written
NoReportOutput == \A i \in 1..Len(output) : output[i] \notin ReportOutputs

\* C19: when a required snapshot of calculate_index_usage is missing or does
\* not parse, the run ends with a printed error and exit status 1 at the stage
\* that loads it (the join, the pricing CSV, the node statistics) or, for node
\* statistics without a node, at the stage that uses them; no report section
\* is printed and no CSV is written: output is emitted only after every load
\* and computation stage has succeeded
C19_FatalInput ==
    prog = "cost" =>
        /\ CostInputBroken => NoReportOutput /\ pc \notin {"costed", "printed", "done"}
        /\ ~NoReportOutput => pc \in {"printed", "done"}
        /\ pc \in {"exit", "crash"} => output \in {<<"Error">>, <<"Traceback">>}
        /\ (\/ bad_files \cap InputFiles # {}
            \/ indices_file = <<>> \/ nodes_file = <<>>
            \/ indices_stats_file = <<>> \/ ilm_explain_file = <<>>)
              => pc \in {"start", "exit"}
        /\ "pricing" \in bad_files => pc \in {"start", "indexed", "exit"}
        /\ "nodes_stats" \in bad_files =>
              pc \in {"start", "indexed", "pricing_read", "exit"}
        /\ nodes_stats_file = <<>> =>
              pc \in {"start", "indexed", "pricing_read", "nodes_read",
                      "exit", "crash"}

\* the run ended at the pricing CSV, after the join had succeeded
C19_Witness ==
    /\ prog = "cost" /\ pc = "exit"
    /\ bad_files = {"pricing"}
    /\ indices_df # <<>>
    /\ output = <<"Error">>

\* C20: when a required snapshot of the ILM report run is absent or lacks its
\* top-level structure (ILM explain is no mapping or has no 'indices' key, the
\* policy definitions are no mapping) the run aborts and no report file is
\* produced: ilm_report.txt is written only with a complete report
C20_NoReportFileOnError ==
    prog = "ilm" =>
        /\ bad_files # {} => \A i \in 1..Len(output) : output[i] # "ilm_report.txt"
        /\ (\E i \in 1..Len(output) : output[i] = "ilm_report.txt") =>
              report.kind = "report"

(***************************************************************************)
(* Claims about values that cannot be read                                 *)
(***************************************************************************)
\* the text of a price cell is no number once the currency prefix is stripped
FailsConversion(cell) ==
    cell.t = "str" /\ PyFloat(StripDollar(cell.c)).kind = "err"

\* the price rows that the merge of calculate_pricing gives to some node
UsedPriceRows ==
    SelectSeq(pricing_file,
              LAMBDA r : \E i \in 1..Len(nodes_stat_df) :
                            /\ nodes_stat_df[i].region_code = r.region_code
                            /\ nodes_stat_df[i].product = r.product)

\* calculate_pricing has been called
PricingCalled == prog = "cost" /\ pc \in {"priced", "costed", "printed", "done", "crash"}

\* C21: calculate_pricing never raises because of a price string that fails
\* numeric conversion after the currency prefix is stripped: the price counts
\* as zero, and every other node and tier is costed
C21_UnparseablePrice ==
    (/\ PricingCalled
     /\ \E k \in 1..Len(UsedPriceRows) : \E t \in Tiers :
           FailsConversion(UsedPriceRows[k][t])) =>
        /\ Len(nodes_pricing) >= Len(nodes_stat_df)
        /\ \A i \in 1..Len(nodes_pricing) : \A t \in Tiers :
              IF FailsConversion(nodes_pricing[i].price[t])
              THEN nodes_pricing[i].hr[t] = Num(<<>>) /\ nodes_pricing[i].yr[t] = Num(<<>>)
              ELSE EligibleAnyCase(nodes_pricing[i]) =>
                      nodes_pricing[i].hr[t] =
                          Num(BigMul(nodes_pricing[i].memory.n,
                                     PriceOf(nodes_pricing[i].price[t])))

\* the node record has no value for one of the fields read without a default
LacksField(e) ==
    e.mem = NaN \/ e.fs_total = NaN \/ e.store = NaN \/ ~e.roles.present

\* the row of nodes_pricing made from node record e
PricedRowsOf(e) == SelectSeq(nodes_pricing, LAMBDA r : r.id = e.id)

\* the nodes stage has been run
NodesCalled ==
    prog = "cost" /\ pc \notin {"start", "indexed", "pricing_read"} /\ bad_files = {}

\* C22: a node record lacking os.mem.total_in_bytes, fs.total.total_in_bytes,
\* indices.store.total_data_set_size_in_bytes or roles does not abort the run:
\* the record is emitted with 0 for a missing number, and every other node
\* record is emitted and costed
C22_MissingNodeField ==
    (/\ NodesCalled
     /\ \E i \in 1..Len(nodes_stats_file) : LacksField(nodes_stats_file[i])) =>
        /\ pc \notin {"exit", "crash"}
        /\ Len(nodes_stat_df) = Len(nodes_stats_file)
        /\ \A i \in 1..Len(nodes_stats_file) :
              /\ nodes_stat_df[i].id = nodes_stats_file[i].id
              /\ nodes_stats_file[i].mem = NaN => nodes_stat_df[i].memory = Num(<<>>)
              /\ nodes_stats_file[i].fs_total = NaN =>
                     nodes_stat_df[i].disk_space = Num(<<>>)
              /\ nodes_stats_file[i].store = NaN =>
                     nodes_stat_df[i].data_store_size = Num(<<>>)
        /\ pc \in {"priced", "costed", "printed", "done"} =>
              \A i \in 1..Len(nodes_stats_file) :
                 ~LacksField(nodes_stats_file[i]) =>
                    /\ Len(PricedRowsOf(nodes_stats_file[i])) = 1
                    /\ \A t \in Tiers :
                          LET row == PricedRowsOf(nodes_stats_file[i])[1]
                          IN  row.hr[t] =
                                 IF EligibleAnyCase(row)
                                 THEN Num(BigMul(row.memory.n, PriceOf(row.price[t])))
                                 ELSE Num(<<>>)

(***************************************************************************)
(* Claims about the index cost report                                      *)
(***************************************************************************)
\* calculate_index_costs has returned the report
Costed == prog = "cost" /\ pc \in {"costed", "printed", "done"}

\* the instance_configuration of the shard rows of an index, in join order
ConfigsOf(index) ==
    LET rows == SelectSeq(indices_df, LAMBDA r : r.index = index)
    IN  [i \in 1..Len(rows) |-> rows[i].instance_configuration]

\* the places of ConfigsOf(index) that hold a value
KnownConfigs(index) ==
    {i \in 1..Len(ConfigsOf(index)) : ConfigsOf(index)[i] # NaN}

Projected(r, role) ==
    [index |-> r.index, role |-> role, node |-> r.node, node_type |-> r.node_type,
     instance_configuration |-> r.instance_configuration, size |-> r.size,
     docs_count |-> r.docs_count, ilm_policy |-> r.ilm_policy, age |-> r.age,
     ilm_phase |-> r.ilm_phase]

MergeRows(df) == [i \in 1..Len(df) |-> Projected(df[i], df[i].data_type)]

LoopRows(df) == [i \in 1..Len(df) |-> Projected(df[i], df[i].data)]

\* the number of times each row is in the table
RowCounts(rows) ==
    [x \in {rows[i] : i \in 1..Len(rows)} |->
        Cardinality({i \in 1..Len(rows) : rows[i] = x})]

\* C24: on every input on which both complete, process_elasticsearch_index_data
\* and process_elasticsearch_data give the same multiset of rows on the columns
\* index, role, node, node_type, instance_configuration, size, docs_count,
\* ilm_policy, age, ilm_phase
C24_JoinsAgree ==
    /\ (prog = "cost" /\ pc = "indexed") =>
          LET other == process_elasticsearch_data(bad_files, indices_file,
                           nodes_file, indices_stats_file, ilm_explain_file)
          IN  ~other.exit =>
                 RowCounts(MergeRows(indices_df)) = RowCounts(LoopRows(other.df))
    /\ (prog = "join" /\ pc = "joined") =>
          LET other == process_elasticsearch_index_data(bad_files, indices_file,
                           nodes_file, indices_stats_file, ilm_explain_file)
          IN  ~other.exit =>
                 RowCounts(LoopRows(combined_data)) = RowCounts(MergeRows(other.df))

\* the indices_stats entries of an index
StatsOf(index) == SelectSeq(indices_stats_file, LAMBDA e : e.index = index)

\* C25: primary size is attributed once per index: for an index with k >= 1
\* primary shard rows and no replica rows, the report's total_index_size is
\* the index's primaries.store.size_in_bytes, whatever k is
C25_PrimarySizeOnce ==
    Costed =>
        \A k \in 1..Len(index_costs) :
            LET rows == ShardRowsOf(index_costs[k].index)
                entry == StatsOf(index_costs[k].index)
            IN  (/\ rows # <<>>
                 /\ \A i \in 1..Len(rows) : rows[i].prirep = "p"
                 /\ entry # <<>>) =>
                    index_costs[k].total_index_size = entry[1].primaries_size

\* C26: calculate_pricing returns exactly one row per input node for every
\* pricing table, also one with several rows of the same (region_code,
\* product), so that each shard row is joined to at most one node-cost row
C26_OneRowPerNode ==
    (prog = "cost" /\ pc \in {"priced", "costed", "printed", "done"}) =>
        /\ Len(nodes_pricing) = Len(nodes_stat_df)
        /\ \A i \in 1..Len(nodes_stat_df) :
              Cardinality({j \in 1..Len(nodes_pricing) :
                              nodes_pricing[j].id = nodes_stat_df[i].id}) = 1
        /\ \A i \in 1..Len(indices_df) : Cardinality(Hosting(indices_df[i])) <= 1

\* the amount of a cost cell; nothing for a cell without a number
Amount(cell) == IF cell.t = "num" THEN cell.n ELSE <<>>

\* the t/yr of all rows of the index cost report, and of all node rows
ReportYr(t) == BigSum([k \in 1..Len(index_costs) |-> Amount(index_costs[k].yr[t])])

NodesYr(t) == BigSum([j \in 1..Len(nodes_pricing) |-> Amount(nodes_pricing[j].yr[t])])

\* C27: cost conservation: for each tier, the yearly cost summed over the rows
\* of the index cost report does not exceed the yearly cost summed over the
\* rows of the node pricing table, wherever the shards are placed
C27_CostConservation ==
    Costed => \A t \in Tiers : BigLeq(ReportYr(t), NodesYr(t))

====
